---- MODULE Spec2Model ----
(***************************************************************************)
(* A model of the xtranslator plugin boundary: the streaming backends and  *)
(* the two default adapters (lib/src/utils.rs), the result envelope and    *)
(* chunk wire shape (lib/src/ffi.rs), the generated entry points           *)
(* (macros/src/lib.rs) and the host-side proxy (lib/src/ffi_proxy.rs).     *)
(*                                                                         *)
(* Texts are sequences of characters; a character is a one-element string. *)
(* An Option<T> is a sequence of length at most one.                       *)
(***************************************************************************)
EXTENDS Integers, Sequences, FiniteSets, TLC

VARIABLES
    kind,       \* which backend's translate_stream is running
    pc,         \* position of the backend's translate_stream
    upN,        \* upstream items (response chunks, events) consumed so far
    upMax,      \* how many upstream items the remote side may deliver
    cache,      \* QwenMtTranslator::translate_stream: `cache`
    es,         \* YoudaoLLMTranslator::translate_stream: the EventSource
    data,       \* normal2stream: `data`, the one-shot result being forwarded
    chan,       \* the sink given to translate_stream: chunks buffered in it
    cap,        \* capacity of that channel
    rxAlive,    \* its Receiver has not been dropped
    emitted,    \* history: chunks translate_stream has enqueued on the sink
    received,   \* history: chunks the consumer has taken from its channel
    consumer,   \* the consumer's loop: "recv", "done" (saw None), "closed"
    s2n,        \* position of stream2normal
    result,     \* stream2normal: `result`, the collected contents
    s2nRet,     \* stream2normal: the returned TranslateResult, if any
    path,       \* call_translate_stream: "ambient" or "fresh" runtime
    call,       \* position of call_translate_stream
    relay,      \* the relay task spawned by call_translate_stream
    inflight,   \* the wire chunk handed to the callback, while it runs
    delivered,  \* history: chunks the relay has passed to the callback
    out,        \* the caller's channel, fed by the proxy's closure
    outCap,     \* its capacity
    outAlive,   \* the caller's Receiver has not been dropped
    proxy,      \* position of ProxyTranslator::translate_stream
    host,       \* a boundary call other than streaming: where its caller is
    op,         \* the boundary operation last called
    wrapped,    \* the Result that operation handed to to_ptr
    envelope,   \* the *mut FfiResult<T> it returned, until it is unwrapped
    unwrapped,  \* what unwrap_handle_result made of the envelope
    ret,        \* what the ProxyTranslator method returned
    backtrace,  \* whether anyhow captures backtraces (RUST_BACKTRACE)
    answer,     \* what the backend's predicate returned, when it was asked
    args,       \* the arguments of the boundary operation last called
    invoked,    \* what the backend's operation was given, if it was invoked
    callbacks,  \* how many times that call invoked callback_wrapper
    runtimes,   \* the runtimes that call built, and how many it dropped
    owner,      \* the ProxyTranslator value: "none", "live", "dropping", "dropped"
    lib,        \* ProxyTranslator.lib: "none", "mapped", "unmapped"
    handle,     \* ProxyTranslator.handle
    instance,   \* the backend made by create_translator: "none", "live", "destroyed"
    released,   \* how many times the handle went through Box::from_raw
    exports,    \* the symbols the library exports
    live,       \* buffers of the last proxy operation that are still allocated
    calledWith, \* history: <<released, lib>> at each boundary call with the handle
    releasedWith, \* history: lib at each release of the handle
    platform,   \* load_translators: the target the crate was built for
    tree,       \* the entries WalkDir yields under the root, in its order
    load,       \* position of load_translators
    walked,     \* entries of the tree the first loop has seen
    libraries,  \* load_translators: `libraries`
    map,        \* load_translators: `map`, as a set of <<name, path>>
    loadRet     \* what load_translators returned, if it has

backendVars == <<kind, pc, upN, upMax, cache, es, data>>
sinkVars == <<chan, cap, rxAlive, emitted>>
consumerVars == <<received, consumer>>
s2nVars == <<s2n, result, s2nRet>>
\* everything a backend's translate_stream never touches
bridgeVars == <<path, call, relay, inflight, delivered, out, outCap, outAlive, proxy>>
loadVars == <<platform, tree, load, walked, libraries, map, loadRet>>
proxyVars == <<owner, lib, handle, instance, released, exports, live,
               calledWith, releasedWith, loadVars>>
callVars == <<args, invoked, callbacks, runtimes>>
envVars == <<host, op, wrapped, envelope, unwrapped, ret, backtrace, answer, callVars,
             proxyVars>>
others == <<consumerVars, s2nVars, bridgeVars, envVars>>
vars == <<backendVars, sinkVars, consumerVars, s2nVars, bridgeVars, envVars>>

----------------------------------------------------------------------------
(* Bounds of the model *)

\* upstream items whose payload varies (and the longest stream outside
\* stream2normal)
MaxDeltas == 2
\* largest capacity a direct caller gives its channel
MaxCap == 2
\* longest error message a backend reports
MaxMsgLen == 2
\* chunks a slow caller takes before it stops reading
MaxReads == 2
\* entries under the root given to load_translators
MaxFiles == 3

\* languages in an array given to free_supported_languages
MaxLangs == 3
\* terms, and references, of a task given to HunyuanTranslator::build_request
MaxItems == 11

(* Program constants *)

\* HunyuanTranslator::build_request: the most entries it puts in References
References_max == 10

\* stream2normal: mpsc::channel(64)
stream2normal_cap == 64
\* call_translate_stream: channel::<TranslateStreamChunk>(256)
relay_cap == 256

----------------------------------------------------------------------------
(* Domain model: lib/src/lib.rs *)

None == <<>>
Some(x) == <<x>>
IsSome(o) == Len(o) = 1
Unwrap(o) == o[1]

\* the NUL character, which no C string can hold
NUL == "NUL"

TranslateResult(r, c) == [reasoning |-> r, content |-> c]

Start == [tag |-> "Start"]
Delta(res) == [tag |-> "Delta", res |-> res]
End == [tag |-> "End"]

RECURSIVE Join(_)
\* Vec<String>::join("")
Join(ss) == IF ss = <<>> THEN <<>> ELSE Head(ss) \o Join(Tail(ss))

IsPrefix(p, s) == Len(p) <= Len(s) /\ SubSeq(s, 1, Len(p)) = p

\* a slip: the text is cut at the remembered length, whatever it starts with
strip_prefix_by_length(s, p) == Some(SubSeq(s, Len(p) + 1, Len(s)))

\* str::strip_prefix
strip_prefix(s, p) ==
    IF IsPrefix(p, s) THEN Some(SubSeq(s, Len(p) + 1, Len(s))) ELSE None

----------------------------------------------------------------------------
(* What the remote services may answer *)

\* one-shot results and streamed deltas (reasoning, content)
UpstreamResults ==
    { TranslateResult(None, None),
      TranslateResult(None, Some(<<"a">>)),
      TranslateResult(Some(<<"r">>), Some(<<"b">>)),
      TranslateResult(None, Some(<<"a", NUL>>)) }

\* Qwen's cumulative `content` field
QwenContents == { None, Some(<<"a">>), Some(<<"a", "b">>), Some(<<"b">>) }

\* Youdao's `transIncre` field
YoudaoContents == { None, Some(<<"a">>), Some(<<"b">>) }

\* beyond the first MaxDeltas items a long stream repeats one item; a stream
\* made to fill the relay's channel repeats it from the start
Vary(S, filler) ==
    IF upN < MaxDeltas /\ upMax < relay_cap THEN S ELSE {filler}

----------------------------------------------------------------------------
(* tokio::sync::mpsc *)

TxAlive == pc \notin {"idle", "ok", "err"}

\* a slip: the channel takes chunks without limit
send_unbounded(chunk, next) ==
    IF ~rxAlive
        THEN /\ pc' = "err"
             /\ UNCHANGED <<chan, emitted>>
        ELSE /\ chan' = Append(chan, chunk)
             /\ emitted' = Append(emitted, chunk)
             /\ pc' = next

\* Sender::send(chunk).await?  then continue at `next`
send(chunk, next) ==
    IF ~rxAlive
        THEN /\ pc' = "err"
             /\ UNCHANGED <<chan, emitted>>
        ELSE /\ Len(chan) < cap
             /\ chan' = Append(chan, chunk)
             /\ emitted' = Append(emitted, chunk)
             /\ pc' = next

----------------------------------------------------------------------------
(* normal2stream: lib/src/utils.rs *)

\* a slip: translate is called before anything is sent
normal2stream_Start_late ==
    /\ kind = "normal2stream" /\ pc = "start"
    /\ pc' = "translate"
    /\ UNCHANGED <<kind, upN, upMax, cache, es, data, sinkVars, others>>

normal2stream_Start ==
    /\ kind = "normal2stream" /\ pc = "start"
    /\ send(Start, "translate")
    /\ UNCHANGED <<kind, upN, upMax, cache, es, data, cap, rxAlive, others>>

\* let data = translator.translate(task).await?;
normal2stream_translate ==
    /\ kind = "normal2stream" /\ pc = "translate"
    /\ invoked' = Some("translate")
    /\ \/ \E r \in UpstreamResults : data' = Some(r) /\ pc' = "delta"
       \/ pc' = "err" /\ data' = data
    /\ UNCHANGED <<kind, upN, upMax, cache, es, sinkVars, consumerVars, s2nVars, bridgeVars,
                   host, op, wrapped, envelope, unwrapped, ret, backtrace, answer,
                   args, callbacks, runtimes, proxyVars>>

normal2stream_Delta ==
    /\ kind = "normal2stream" /\ pc = "delta"
    /\ send(Delta(Unwrap(data)), "end")
    /\ UNCHANGED <<kind, upN, upMax, cache, es, data, cap, rxAlive, others>>

\* a slip: success is returned without End
normal2stream_End_skipped ==
    /\ kind = "normal2stream" /\ pc = "end"
    /\ pc' = "ok"
    /\ UNCHANGED <<kind, upN, upMax, cache, es, data, sinkVars, others>>

normal2stream_End ==
    /\ kind = "normal2stream" /\ pc = "end"
    /\ send(End, "ok")
    /\ UNCHANGED <<kind, upN, upMax, cache, es, data, cap, rxAlive, others>>

normal2stream ==
    \/ normal2stream_Start
    \/ normal2stream_translate
    \/ normal2stream_Delta
    \/ normal2stream_End

----------------------------------------------------------------------------
(* OpenAITranslator::translate_stream: plugin-openai/src/translator.rs *)

OpenAI_request ==
    /\ kind = "openai" /\ pc = "request"
    /\ pc' \in {"start", "err"}
    /\ UNCHANGED <<kind, upN, upMax, cache, es, data, sinkVars, others>>

OpenAI_Start ==
    /\ kind = "openai" /\ pc = "start"
    /\ send(Start, "next")
    /\ UNCHANGED <<kind, upN, upMax, cache, es, data, cap, rxAlive, others>>

\* a slip: End is enqueued before bailing out
OpenAI_bail_End ==
    /\ pc' = "err"
    /\ chan' = Append(chan, End)
    /\ emitted' = Append(emitted, End)
    /\ UNCHANGED <<upN, cap, rxAlive>>

\* bail!(result.unwrap_err())
OpenAI_bail ==
    /\ pc' = "err"
    /\ UNCHANGED <<upN, sinkVars>>

OpenAI_next ==
    /\ kind = "openai" /\ pc = "next"
    /\ \/ /\ upN < upMax
          /\ \E r \in Vary(UpstreamResults, TranslateResult(None, Some(<<"a">>))) :
                send(Delta(TranslateResult(r.reasoning, r.content)), "next")
          /\ upN' = upN + 1
          /\ UNCHANGED <<cap, rxAlive>>
       \/ OpenAI_bail
       \/ /\ pc' = "end"
          /\ UNCHANGED <<upN, sinkVars>>
    /\ UNCHANGED <<kind, upMax, cache, es, data, others>>

OpenAI_End ==
    /\ kind = "openai" /\ pc = "end"
    /\ send(End, "ok")
    /\ UNCHANGED <<kind, upN, upMax, cache, es, data, cap, rxAlive, others>>

OpenAI_translate_stream ==
    \/ OpenAI_request
    \/ OpenAI_Start
    \/ OpenAI_next
    \/ OpenAI_End

----------------------------------------------------------------------------
(* QwenMtTranslator::translate_stream: plugin-qwen/src/translator.rs *)

Qwen_request ==
    /\ kind = "qwen" /\ pc = "request"
    /\ pc' \in {"start", "err"}
    /\ UNCHANGED <<kind, upN, upMax, cache, es, data, sinkVars, others>>

Qwen_Start ==
    /\ kind = "qwen" /\ pc = "start"
    /\ send(Start, "next")
    /\ cache' = <<>>
    /\ UNCHANGED <<kind, upN, upMax, es, data, cap, rxAlive, others>>

Qwen_next ==
    /\ kind = "qwen" /\ pc = "next"
    /\ \/ /\ upN < upMax
          /\ \E content \in Vary(QwenContents, Some(<<"a">>)) :
                /\ send(Delta(TranslateResult(None,
                        IF IsSome(content)
                            THEN strip_prefix(Unwrap(content), cache)
                            ELSE None)), "next")
                /\ cache' = IF pc' = "err" THEN cache
                            ELSE IF IsSome(content) THEN Unwrap(content) ELSE <<>>
          /\ upN' = upN + 1
          /\ UNCHANGED <<cap, rxAlive>>
       \/ /\ pc' = "err"
          /\ UNCHANGED <<upN, cache, sinkVars>>
       \/ /\ pc' = "end"
          /\ UNCHANGED <<upN, cache, sinkVars>>
    /\ UNCHANGED <<kind, upMax, es, data, others>>

Qwen_End ==
    /\ kind = "qwen" /\ pc = "end"
    /\ send(End, "ok")
    /\ UNCHANGED <<kind, upN, upMax, cache, es, data, cap, rxAlive, others>>

Qwen_translate_stream ==
    \/ Qwen_request
    \/ Qwen_Start
    \/ Qwen_next
    \/ Qwen_End

----------------------------------------------------------------------------
(* YoudaoLLMTranslator::translate_stream:                                  *)
(* plugin-youdao-llm/src/translator.rs.  The EventSource answers Open or   *)
(* an error while connecting, messages or an error once open, and nothing  *)
(* after close().                                                          *)

Youdao_request ==
    /\ kind = "youdao" /\ pc = "request"
    /\ \/ pc' = "next" /\ es' = "connecting"
       \/ pc' = "err" /\ es' = es
    /\ UNCHANGED <<kind, upN, upMax, cache, data, sinkVars, others>>

\* a slip: Event::Open is taken without sending Start
Youdao_Open_silent ==
    /\ kind = "youdao" /\ pc = "next" /\ es = "connecting"
    /\ es' = "open"
    /\ UNCHANGED <<kind, pc, upN, upMax, cache, data, sinkVars, others>>

Youdao_Open ==
    /\ kind = "youdao" /\ pc = "next" /\ es = "connecting"
    /\ send(Start, "next")
    /\ es' = IF pc' = "err" THEN es ELSE "open"
    /\ UNCHANGED <<kind, upN, upMax, cache, data, cap, rxAlive, others>>

Youdao_Message ==
    /\ kind = "youdao" /\ pc = "next" /\ es = "open"
    /\ upN < upMax
    /\ \/ /\ \E c \in Vary(YoudaoContents, Some(<<"a">>)) :
                send(Delta(TranslateResult(None, c)), "next")
          /\ upN' = upN + 1
          /\ UNCHANGED <<cap, rxAlive>>
       \/ /\ pc' = "err"
          /\ UNCHANGED <<upN, sinkVars>>
    /\ UNCHANGED <<kind, upMax, cache, es, data, others>>

Youdao_Err ==
    /\ kind = "youdao" /\ pc = "next"
    /\ \/ /\ es = "open"
          /\ es' = "closed"
          /\ pc' = pc
       \/ /\ es \in {"connecting", "open"}
          /\ es' = "closed"
          /\ pc' = "err"
    /\ UNCHANGED <<kind, upN, upMax, cache, data, sinkVars, others>>

Youdao_None ==
    /\ kind = "youdao" /\ pc = "next" /\ es = "closed"
    /\ pc' = "end"
    /\ UNCHANGED <<kind, upN, upMax, cache, es, data, sinkVars, others>>

Youdao_End ==
    /\ kind = "youdao" /\ pc = "end"
    /\ send(End, "ok")
    /\ UNCHANGED <<kind, upN, upMax, cache, es, data, cap, rxAlive, others>>

Youdao_translate_stream ==
    \/ Youdao_request
    \/ Youdao_Open
    \/ Youdao_Message
    \/ Youdao_Err
    \/ Youdao_None
    \/ Youdao_End

----------------------------------------------------------------------------
(* Translator::translate_stream, whichever backend implements it *)

Kinds == {"normal2stream", "openai", "qwen", "youdao"}

translate_stream ==
    \/ normal2stream
    \/ OpenAI_translate_stream
    \/ Qwen_translate_stream
    \/ Youdao_translate_stream

\* the first position of a call
Entry(k) == IF k = "normal2stream" THEN "start" ELSE "request"

Returned == pc \in {"ok", "err"}

BackendInit(limit) ==
    /\ kind \in Kinds
    /\ pc = Entry(kind)
    /\ upN = 0
    /\ upMax = limit
    /\ cache = <<>>
    /\ es = "none"
    /\ data = None

SinkInit(capacity) ==
    /\ chan = <<>>
    /\ cap = capacity
    /\ rxAlive = TRUE
    /\ emitted = <<>>

----------------------------------------------------------------------------
(* A caller that drives translate_stream and consumes its channel from a   *)
(* task of its own: lib/src/utils.rs, test_translate_stream                *)

consumer_recv ==
    /\ consumer = "recv"
    /\ \/ /\ chan # <<>>
          /\ received' = Append(received, Head(chan))
          /\ chan' = Tail(chan)
          /\ consumer' = consumer
       \/ /\ chan = <<>> /\ ~TxAlive
          /\ consumer' = "done"
          /\ UNCHANGED <<received, chan>>
    /\ UNCHANGED <<envVars, backendVars, cap, rxAlive, emitted, s2nVars, bridgeVars>>

\* the consumer drops its Receiver: what is buffered is dropped with it
consumer_close ==
    /\ consumer = "recv"
    /\ consumer' = "closed"
    /\ rxAlive' = FALSE
    /\ chan' = <<>>
    /\ UNCHANGED <<envVars, backendVars, cap, emitted, received, s2nVars, bridgeVars>>

S2NIdle == s2n = "idle" /\ result = <<>> /\ s2nRet = None

ConsumerIdle == received = <<>> /\ consumer = "idle"

\* the buffers that cross the boundary
BufferKinds == {"text", "envelope", "payload", "err", "array", "str"}

NoBuffers == [k \in BufferKinds |-> 0]

Symbols ==
    { "create_translator",
      "get_supported_input_languages", "get_supported_output_languages",
      "is_supported_input_language", "is_supported_output_language",
      "call_translate", "call_translate_stream" }

\* load_translators is not running
LoadIdle ==
    /\ platform = "linux" /\ tree = <<>> /\ load = "idle" /\ walked = 0
    /\ libraries = <<>> /\ map = {} /\ loadRet = <<>>

\* no ProxyTranslator has been made
\* no boundary operation has been called
CallIdle ==
    /\ args = <<>> /\ invoked = <<>> /\ callbacks = 0
    /\ runtimes = [built |-> 0, dropped |-> 0]

ProxyIdle ==
    /\ owner = "none" /\ lib = "none" /\ handle = [null |-> TRUE]
    /\ instance = "none" /\ released = 0 /\ exports = Symbols
    /\ live = NoBuffers /\ calledWith = {} /\ releasedWith = {}
    /\ LoadIdle

EnvIdle ==
    /\ host = "idle" /\ op = "none" /\ backtrace = FALSE
    /\ wrapped = None /\ envelope = None /\ unwrapped = None /\ ret = None
    /\ answer = None
    /\ CallIdle
    /\ ProxyIdle

BridgeIdle ==
    /\ path = "none" /\ call = "idle" /\ relay = "none" /\ proxy = "idle"
    /\ inflight = None /\ delivered = <<>>
    /\ out = <<>> /\ outCap = 0 /\ outAlive = FALSE

InitDirect ==
    /\ BackendInit(MaxDeltas)
    /\ \E c \in 1..MaxCap : SinkInit(c)
    /\ received = <<>>
    /\ consumer = "recv"
    /\ S2NIdle
    /\ BridgeIdle
    /\ EnvIdle

NextDirect ==
    \/ translate_stream
    \/ consumer_recv
    \/ consumer_close

SpecDirect == InitDirect /\ [][NextDirect]_vars

----------------------------------------------------------------------------
(* stream2normal: lib/src/utils.rs.  The channel is created, translate_stream *)
(* is awaited to its end, and only then is the channel drained.              *)

\* translator.translate_stream(task, tx).await?
stream2normal_await ==
    /\ s2n = "await" /\ Returned
    /\ IF pc = "err"
          THEN /\ s2n' = "err"
               /\ rxAlive' = FALSE
               /\ chan' = <<>>
          ELSE /\ s2n' = "drain"
               /\ UNCHANGED <<rxAlive, chan>>
    /\ UNCHANGED <<envVars, backendVars, cap, emitted, consumerVars, result, s2nRet, bridgeVars>>

\* a slip: the content is put in front of what was collected
collect_front(acc, chunk) ==
    IF chunk.tag = "Delta" /\ IsSome(chunk.res.content)
        THEN <<Unwrap(chunk.res.content)>> \o acc
        ELSE acc

\* if let Delta(res) = chunk { if let Some(s) = res.content { result.push(s) } }
collect(acc, chunk) ==
    IF chunk.tag = "Delta" /\ IsSome(chunk.res.content)
        THEN Append(acc, Unwrap(chunk.res.content))
        ELSE acc

\* while let Some(chunk) = rx.recv().await { ... }  and the return after it
stream2normal_recv ==
    /\ s2n = "drain"
    /\ IF chan # <<>>
          THEN /\ chan' = Tail(chan)
               /\ result' = collect(result, Head(chan))
               /\ UNCHANGED <<s2n, s2nRet>>
          ELSE /\ s2n' = "ok"
               /\ s2nRet' = Some(TranslateResult(None, Some(Join(result))))
               /\ UNCHANGED <<chan, result>>
    /\ UNCHANGED <<envVars, backendVars, cap, rxAlive, emitted, consumerVars, bridgeVars>>

stream2normal ==
    \/ stream2normal_await
    \/ stream2normal_recv

InitS2N ==
    /\ BackendInit(stream2normal_cap)
    /\ SinkInit(stream2normal_cap)
    /\ ConsumerIdle
    /\ BridgeIdle
    /\ EnvIdle
    /\ s2n = "await" /\ result = <<>> /\ s2nRet = None

NextS2N ==
    \/ translate_stream
    \/ stream2normal

SpecS2N == InitS2N /\ [][NextS2N]_vars

----------------------------------------------------------------------------
(* The chunk wire shape: lib/src/ffi.rs *)

NULL == [null |-> TRUE]
Ptr(v) == [null |-> FALSE, at |-> v]
is_null(p) == p.null

Ok(v) == [ok |-> TRUE, v |-> v]
Err(m) == [ok |-> FALSE, err |-> m]

HasNul(s) == \E i \in 1..Len(s) : s[i] = NUL

\* Option<String>  ->  *mut c_char   (None -> null)
\* .map(|s| CString::new(s).unwrap().into_raw()).unwrap_or(null_mut())
opt_into_raw(o) == IF IsSome(o) THEN Ptr(Unwrap(o)) ELSE NULL

\* CString::new(s).unwrap() panics on an interior NUL
opt_into_raw_panics(o) == IsSome(o) /\ HasNul(Unwrap(o))

\* TranslateResult::into_ffi
TranslateResult_into_ffi(r) ==
    Ptr([reasoning |-> opt_into_raw(r.reasoning), content |-> opt_into_raw(r.content)])

TranslateResult_into_ffi_panics(r) ==
    opt_into_raw_panics(r.reasoning) \/ opt_into_raw_panics(r.content)

\* TranslateResult::from_ffi
TranslateResult_from_ffi(p) ==
    IF is_null(p)
        THEN Err(<<"null pointer received from ffi">>)
        ELSE Ok(TranslateResult(
                IF is_null(p.at.reasoning) THEN None ELSE Some(p.at.reasoning.at),
                IF is_null(p.at.content) THEN None ELSE Some(p.at.content.at)))

\* TranslateStreamChunk::into_ffi
TranslateStreamChunk_into_ffi(c) ==
    CASE c.tag = "Start" -> Ptr([tag |-> "Start", data |-> NULL])
      [] c.tag = "Delta" -> Ptr([tag |-> "Delta", data |-> TranslateResult_into_ffi(c.res)])
      [] c.tag = "End" -> Ptr([tag |-> "End", data |-> NULL])

TranslateStreamChunk_into_ffi_panics(c) ==
    c.tag = "Delta" /\ TranslateResult_into_ffi_panics(c.res)

\* TranslateStreamChunk::from_ffi
TranslateStreamChunk_from_ffi(p) ==
    IF is_null(p)
        THEN Err(<<"null pointer received from ffi">>)
        ELSE CASE p.at.tag = "Start" -> Ok(Start)
               [] p.at.tag = "Delta" ->
                    LET r == TranslateResult_from_ffi(p.at.data)
                    IN  IF r.ok THEN Ok(Delta(r.v)) ELSE r
               [] p.at.tag = "End" -> Ok(End)

----------------------------------------------------------------------------
(* call_translate_stream (macros/src/lib.rs) called by                      *)
(* ProxyTranslator::translate_stream (lib/src/ffi_proxy.rs)                 *)

\* the caller's Sender lives until ProxyTranslator::translate_stream returns
OutTxAlive == proxy = "call"

\* a slip: the newest chunk is taken first
rx_recv_newest(ch) == <<ch[Len(ch)], SubSeq(ch, 1, Len(ch) - 1)>>

\* rx.recv().await on a channel that holds chunks: the oldest one, and the rest
rx_recv(ch) == <<Head(ch), Tail(ch)>>

\* the relay task:  while let Some(chunk) = rx.recv().await { ... into_ffi() }
relay_recv ==
    /\ relay = "recv"
    /\ IF chan # <<>>
          THEN LET chunk == rx_recv(chan)[1]
                   rest == rx_recv(chan)[2]
               IN  IF TranslateStreamChunk_into_ffi_panics(chunk)
                      THEN \* the task panics; its Receiver is dropped with it
                           /\ relay' = "panicked"
                           /\ rxAlive' = FALSE
                           /\ chan' = <<>>
                           /\ UNCHANGED <<inflight, delivered>>
                      ELSE /\ relay' = "callback"
                           /\ chan' = rest
                           /\ inflight' = Some(TranslateStreamChunk_into_ffi(chunk))
                           /\ delivered' = Append(delivered, chunk)
                           /\ UNCHANGED rxAlive
          ELSE /\ ~TxAlive
               /\ relay' = "done"
               /\ rxAlive' = FALSE
               /\ UNCHANGED <<chan, inflight, delivered>>
    /\ UNCHANGED <<envVars, backendVars, cap, emitted, consumerVars, s2nVars,
                   path, call, out, outCap, outAlive, proxy>>

\* callback_wrapper(chunk, cb): stream_callback runs the proxy's closure,
\* which decodes the chunk and blocking_send()s it; a failed send panics
\* inside an extern "C" function, which ends the process
stream_callback ==
    /\ relay = "callback"
    /\ LET chunk == TranslateStreamChunk_from_ffi(Unwrap(inflight))
       IN  IF ~chunk.ok
              THEN /\ relay' = "recv"
                   /\ UNCHANGED <<out, call, proxy, pc, consumer>>
              ELSE IF ~outAlive
                      THEN /\ relay' = "aborted"
                           /\ call' = "aborted"
                           /\ proxy' = "aborted"
                           /\ pc' = "aborted"
                           /\ consumer' = "aborted"
                           /\ UNCHANGED out
                      ELSE /\ Len(out) < outCap
                           /\ out' = Append(out, chunk.v)
                           /\ relay' = "recv"
                           /\ UNCHANGED <<call, proxy, pc, consumer>>
    /\ inflight' = None
    /\ UNCHANGED <<envVars, kind, upN, upMax, cache, es, data, sinkVars, received, s2nVars,
                   path, delivered, outCap, outAlive>>

\* translator.translate_stream(task, tx).await returned Err: the error
\* envelope is returned at once.  A runtime created for the call is dropped
\* on the way out, which waits for the relay's current poll and cancels it.
call_translate_stream_err ==
    /\ call = "driving" /\ pc = "err"
    /\ call' = "err"
    /\ IF path = "fresh"
          THEN /\ relay # "callback"
               /\ IF relay = "recv"
                     THEN relay' = "cancelled" /\ rxAlive' = FALSE /\ chan' = <<>>
                     ELSE UNCHANGED <<relay, rxAlive, chan>>
          ELSE UNCHANGED <<relay, rxAlive, chan>>
    /\ UNCHANGED <<envVars, backendVars, cap, emitted, consumerVars, s2nVars,
                   path, inflight, delivered, out, outCap, outAlive, proxy>>

\* translate_stream returned Ok:  let _ = handle.await;  Ok(0i8)
call_translate_stream_ok ==
    /\ call = "driving" /\ pc = "ok"
    /\ relay \in {"done", "panicked"}
    /\ call' = "ok"
    /\ UNCHANGED <<envVars, backendVars, sinkVars, consumerVars, s2nVars,
                   path, relay, inflight, delivered, out, outCap, outAlive, proxy>>

\* unwrap_handle_result(result)?;  Ok(())
ProxyTranslator_translate_stream_return ==
    /\ proxy = "call" /\ call \in {"ok", "err"}
    /\ proxy' = call
    /\ UNCHANGED <<envVars, backendVars, sinkVars, consumerVars, s2nVars,
                   path, call, relay, inflight, delivered, out, outCap, outAlive>>

\* the caller's consumer task, reading the caller's channel
caller_recv ==
    /\ consumer = "recv"
    /\ \/ /\ out # <<>>
          /\ received' = Append(received, Head(out))
          /\ out' = Tail(out)
          /\ consumer' = consumer
       \/ /\ out = <<>> /\ ~OutTxAlive
          /\ consumer' = "done"
          /\ UNCHANGED <<received, out>>
    /\ UNCHANGED <<envVars, backendVars, sinkVars, s2nVars,
                   path, call, relay, inflight, delivered, outCap, outAlive, proxy>>

caller_close ==
    /\ consumer = "recv"
    /\ consumer' = "closed"
    /\ outAlive' = FALSE
    /\ out' = <<>>
    /\ UNCHANGED <<envVars, backendVars, sinkVars, received, s2nVars,
                   path, call, relay, inflight, delivered, outCap, proxy>>

InitStream ==
    /\ BackendInit(MaxDeltas)
    /\ SinkInit(relay_cap)
    /\ received = <<>> /\ consumer = "recv"
    /\ S2NIdle
    /\ EnvIdle
    /\ path \in {"ambient", "fresh"}
    /\ call = "driving" /\ relay = "recv" /\ proxy = "call"
    /\ inflight = None /\ delivered = <<>>
    /\ out = <<>> /\ outCap \in 1..MaxCap /\ outAlive = TRUE

NextStream ==
    \/ translate_stream
    \/ relay_recv
    \/ stream_callback
    \/ call_translate_stream_err
    \/ call_translate_stream_ok
    \/ ProxyTranslator_translate_stream_return
    \/ caller_recv
    \/ caller_close

SpecStream == InitStream /\ [][NextStream]_vars

----------------------------------------------------------------------------
(* The same bridge under a stream long enough to fill the relay's channel, *)
(* read by a caller that is slow                                           *)

\* the caller's consumer task takes at most MaxReads chunks, then keeps its
\* Receiver without reading from it
slow_caller_recv ==
    /\ consumer = "recv"
    /\ out # <<>>
    /\ Len(received) < MaxReads
    /\ received' = Append(received, Head(out))
    /\ out' = Tail(out)
    /\ UNCHANGED <<envVars, backendVars, sinkVars, s2nVars, consumer,
                   path, call, relay, inflight, delivered, outCap, outAlive, proxy>>

InitBackpressure ==
    /\ kind = "openai" /\ pc = Entry(kind)
    /\ upN = 0 /\ upMax = relay_cap + 2
    /\ cache = <<>> /\ es = "none" /\ data = None
    /\ SinkInit(relay_cap)
    /\ received = <<>> /\ consumer = "recv"
    /\ S2NIdle
    /\ EnvIdle
    /\ path \in {"ambient", "fresh"}
    /\ call = "driving" /\ relay = "recv" /\ proxy = "call"
    /\ inflight = None /\ delivered = <<>>
    /\ out = <<>> /\ outCap \in 1..MaxCap /\ outAlive = TRUE

NextBackpressure ==
    \/ OpenAI_translate_stream
    \/ relay_recv
    \/ stream_callback
    \/ call_translate_stream_err
    \/ call_translate_stream_ok
    \/ ProxyTranslator_translate_stream_return
    \/ slow_caller_recv

SpecBackpressure == InitBackpressure /\ [][NextBackpressure]_vars

----------------------------------------------------------------------------
(* The result envelope: lib/src/ffi.rs *)

\* characters an error message is made of
Alphabet == {"a", "\"", "\n", NUL}

Messages == UNION { [1..n -> Alphabet] : n \in 0..MaxMsgLen }

\* format!("{:?}", err) of an anyhow::Error: the message, then the backtrace
\* when one was captured
anyhow_debug(m) ==
    IF backtrace THEN m \o <<"\n", "\n", "Stack backtrace:">> ELSE m

\* a slip: the payload side of an error envelope is left non-null
Into_FfiResult_both(r) ==
    IF r.ok
        THEN [ptr |-> Ptr(r.v), err |-> NULL]
        ELSE [ptr |-> Ptr(0), err |-> Ptr(anyhow_debug(r.err))]

\* impl Into<FfiResult<T>> for Result<T>
Into_FfiResult(r) ==
    IF r.ok
        THEN [ptr |-> Ptr(r.v), err |-> NULL]
        ELSE [ptr |-> NULL, err |-> Ptr(anyhow_debug(r.err))]

\* CString::new(format!("{:?}", err)).unwrap() panics on an interior NUL
to_ptr_panics(r) == ~r.ok /\ HasNul(anyhow_debug(r.err))

\* FfiResultExt::to_ptr
to_ptr(r) == Ptr(Into_FfiResult(r))

\* char::escape_debug as <str as Debug> uses it
escape_debug(c) ==
    CASE c = "\"" -> <<"\\", "\"">>
      [] c = "\\" -> <<"\\", "\\">>
      [] c = "\n" -> <<"\\", "n">>
      [] OTHER -> <<c>>

RECURSIVE escape_all(_)
escape_all(s) ==
    IF s = <<>> THEN <<>> ELSE escape_debug(Head(s)) \o escape_all(Tail(s))

\* format!("{:?}", s) of a string
str_debug(s) == <<"\"">> \o escape_all(s) \o <<"\"">>

\* unwrap_handle_result
unwrap_handle_result(res) ==
    IF is_null(res)
        THEN Err(<<"result is null">>)
        ELSE IF ~is_null(res.at.err)
            THEN Err(<<"result's error: ">> \o str_debug(res.at.err.at))
            ELSE IF is_null(res.at.ptr)
                THEN Err(<<"result obj is null">>)
                ELSE Ok(res.at.ptr)

----------------------------------------------------------------------------
(* The generated entry points: macros/src/lib.rs.  Each computes a Result  *)
(* and returns it through to_ptr.                                          *)

\* a byte sequence that is not UTF-8
BAD == "0xFF"
ValidUtf8(s) == \A i \in 1..Len(s) : s[i] # BAD

\* JSON values, as serde_json reads and writes them
JNull == [json |-> "null"]
JNum(n) == [json |-> "number", n |-> n]
JStr(str) == [json |-> "string", s |-> str]
JArr(items) == [json |-> "array", items |-> items]
\* the object without members
JEmpty == [json |-> "object"]

\* TranslatedItem, and the value serde writes for it
TranslatedItem(source, target) == [source |-> source, target |-> target]
T1 == TranslatedItem(<<"a">>, <<"b">>)
T2 == TranslatedItem(<<"c">>, <<"d">>)
JItem(item) ==
    [json |-> "object", source |-> JStr(item.source), target |-> JStr(item.target)]

\* the members a document is made of: a text is a sequence of characters,
\* and a member `"key":value` stands in it as one token
Members ==
    { <<"\"id\":\"i\"", "id", JStr(<<"i">>)>>,
      <<"\"id\":1", "id", JNum(1)>>,
      <<"\"content\":\"c\"", "content", JStr(<<"c">>)>>,
      <<"\"source_language\":null", "source_language", JNull>>,
      <<"\"source_language\":\"en\"", "source_language", JStr(<<"e", "n">>)>>,
      <<"\"source_language\":\"e\"", "source_language", JStr(<<"e">>)>>,
      <<"\"target_language\":null", "target_language", JNull>>,
      <<"\"target_language\":\"zh\"", "target_language", JStr(<<"z", "h">>)>>,
      <<"\"user_prompt\":null", "user_prompt", JNull>>,
      <<"\"user_prompt\":\"u\"", "user_prompt", JStr(<<"u">>)>>,
      <<"\"system_prompt\":null", "system_prompt", JNull>>,
      <<"\"system_prompt\":\"s\"", "system_prompt", JStr(<<"s">>)>>,
      <<"\"field\":null", "field", JNull>>,
      <<"\"field\":\"f\"", "field", JStr(<<"f">>)>>,
      <<"\"terms\":[]", "terms", JArr(<<>>)>>,
      <<"\"terms\":[T1]", "terms", JArr(<<JItem(T1)>>)>>,
      <<"\"terms\":[T1,T2]", "terms", JArr(<<JItem(T1), JItem(T2)>>)>>,
      <<"\"terms\":[T2,T1]", "terms", JArr(<<JItem(T2), JItem(T1)>>)>>,
      <<"\"references\":[]", "references", JArr(<<>>)>>,
      <<"\"references\":[T1]", "references", JArr(<<JItem(T1)>>)>>,
      <<"\"extra\":null", "extra", JNull>>,
      <<"\"extra\":{}", "extra", JEmpty>>,
      <<"\"note\":1", "note", JNum(1)>> }

Token(m) == m[1]
Key(m) == m[2]
Value(m) == m[3]

\* the member a token stands for
MemberOf(token) == CHOOSE m \in Members : Token(m) = token

\* the token serde_json writes for a member
Write(key, value) == Token(CHOOSE m \in Members : Key(m) = key /\ Value(m) = value)

\* what serde_json accepts as a document, among the texts tried: an object
\* of known members
IsJson(s) ==
    /\ Len(s) >= 2
    /\ s[1] = "{" /\ s[Len(s)] = "}"
    /\ \A i \in 2..(Len(s) - 1) : s[i] \in { Token(m) : m \in Members }

\* the members of a document, in its order
members_of(s) == <<>> \o [i \in 1..(Len(s) - 2) |-> MemberOf(s[i + 1])]

\* LanguageTag::parse, on the tags tried: a primary language of two to eight
\* letters
LanguageTag_parse(str) ==
    IF Len(str) >= 2 /\ Len(str) <= 8 /\ \A i \in 1..Len(str) : str[i] \in {"e", "n", "z", "h", "x"}
        THEN Ok(str)
        ELSE Err(<<"Invalid subtag">>)

\* #[derive(Deserialize)] struct TranslateTask: the fields, in declaration order
TaskFields ==
    <<"id", "content", "source_language", "target_language", "user_prompt",
      "system_prompt", "field", "terms", "references", "extra">>

\* Deserialize of one field's type from a JSON value
deserialize_field(key, value) ==
    CASE key \in {"id", "content"} ->
            IF value.json = "string" THEN Ok(value.s)
            ELSE Err(<<"invalid type, expected a string">>)
      [] key \in {"source_language", "target_language"} ->
            IF value.json = "null" THEN Ok(None)
            ELSE IF value.json # "string" THEN Err(<<"invalid type, expected a string">>)
            ELSE LET tag == LanguageTag_parse(value.s)
                 IN  IF tag.ok THEN Ok(Some(tag.v)) ELSE tag
      [] key \in {"user_prompt", "system_prompt", "field"} ->
            IF value.json = "null" THEN Ok(None)
            ELSE IF value.json = "string" THEN Ok(Some(value.s))
            ELSE Err(<<"invalid type, expected a string">>)
      [] key \in {"terms", "references"} ->
            IF value.json = "array"
                THEN Ok([i \in 1..Len(value.items) |->
                            TranslatedItem(value.items[i].source.s,
                                           value.items[i].target.s)])
                ELSE Err(<<"invalid type, expected a sequence">>)
      [] key = "extra" ->
            \* Option<Value>: null is read as None
            IF value.json = "null" THEN Ok(None) ELSE Ok(Some(value))

\* a slip: #[serde(default)] on the two lists, which makes them optional
missing_field_default(key) ==
    IF key \in {"terms", "references"} THEN Ok(<<>>)
    ELSE IF key \in {"id", "content"} THEN Err(<<"missing field ", key>>)
    ELSE Ok(None)

\* a field no member of the document gave: Option<T> is None, anything else
\* is an error
missing_field(key) ==
    IF key \in {"source_language", "target_language", "user_prompt",
                "system_prompt", "field", "extra"}
        THEN Ok(None)
        ELSE Err(<<"missing field ", key>>)

\* positions of the members of ms that give the field key
positions(ms, key) == { i \in 1..Len(ms) : Key(ms[i]) = key }

\* the field key as the derived visitor reads it from the members ms
read_field(ms, key) ==
    LET at == positions(ms, key)
    IN  IF at = {} THEN missing_field(key)
        ELSE IF Cardinality(at) > 1 THEN Err(<<"duplicate field ", key>>)
        ELSE deserialize_field(key, Value(ms[CHOOSE i \in at : TRUE]))

\* serde_json::from_str::<TranslateTask>(input); members of other names are
\* ignored
from_str_TranslateTask(input) ==
    IF ~IsJson(input) THEN Err(<<"EOF while parsing">>)
    ELSE LET ms == members_of(input)
             fields == <<>> \o [i \in 1..Len(TaskFields) |-> read_field(ms, TaskFields[i])]
             bad == { i \in 1..Len(TaskFields) : ~fields[i].ok }
         IN  IF bad # {}
                THEN fields[CHOOSE i \in bad : \A j \in bad : i <= j]
                ELSE Ok([id |-> fields[1].v, content |-> fields[2].v,
                         source_language |-> fields[3].v, target_language |-> fields[4].v,
                         user_prompt |-> fields[5].v, system_prompt |-> fields[6].v,
                         field |-> fields[7].v, terms |-> fields[8].v,
                         references |-> fields[9].v, extra |-> fields[10].v])

\* Serialize of one field: the JSON value serde writes for it
serialize_field(key, v) ==
    CASE key \in {"id", "content"} -> JStr(v)
      [] key \in {"source_language", "target_language", "user_prompt",
                  "system_prompt", "field"} ->
            IF IsSome(v) THEN JStr(Unwrap(v)) ELSE JNull
      [] key \in {"terms", "references"} -> JArr([i \in 1..Len(v) |-> JItem(v[i])])
      [] key = "extra" -> IF IsSome(v) THEN Unwrap(v) ELSE JNull

\* serde_json::to_string(&task): every field, in declaration order
to_string_TranslateTask(task) ==
    <<"{">> \o [i \in 1..Len(TaskFields) |->
                  Write(TaskFields[i], serialize_field(TaskFields[i], task[TaskFields[i]]))]
            \o <<"}">>

\* documents given to the entry points
Required == <<"\"id\":\"i\"", "\"content\":\"c\"", "\"terms\":[]", "\"references\":[]">>
Without(seq, i) == SubSeq(seq, 1, i - 1) \o SubSeq(seq, i + 1, Len(seq))
Document(tokens) == <<"{">> \o tokens \o <<"}">>

\* only the required fields
MinimalTask == Document(Required)

TaskDocuments ==
    { MinimalTask,
      Document(Required \o <<"\"extra\":{}", "\"source_language\":\"en\"", "\"note\":1">>),
      Document(Required \o <<"\"source_language\":\"e\"">>),
      Document(<<"\"id\":1">> \o Without(Required, 1)),
      Document(Required \o <<"\"id\":\"i\"">>) }
    \cup { Document(Without(Required, i)) : i \in 1..Len(Required) }

TextArgs == { NULL, Ptr(<<BAD>>), Ptr(<<"{">>), Ptr(<<"{", "}">>) }
                \cup { Ptr(d) : d \in TaskDocuments }
LangArgs == { NULL, Ptr(<<BAD>>), Ptr(<<"e", "n">>), Ptr(<<"x", "x">>), Ptr(<<"e">>) }
HandleArgs == { NULL, Ptr("translator") }

\* a fallible backend operation: its value or its error
Outcomes(values) == { Ok(v) : v \in values } \cup { Err(m) : m \in Messages }

\* the prologue shared by the entry points that take a text
text_arg(json_str) ==
    IF is_null(json_str)
        THEN Err(<<"Null pointer received">>)
        ELSE IF ~ValidUtf8(json_str.at)
            THEN Err(<<"Invalid UTF-8: ", "invalid utf-8 sequence">>)
            ELSE Ok(json_str.at)

json_arg(json_str) ==
    LET input == text_arg(json_str)
    IN  IF ~input.ok THEN input
        ELSE IF ~IsJson(input.v)
            THEN Err(<<"JSON parse error: ", "EOF while parsing">>)
            ELSE input

\* the prologue of call_translate and call_translate_stream:
\* serde_json::from_str::<TranslateTask>(input)
task_arg(json_str) ==
    LET input == text_arg(json_str)
    IN  IF ~input.ok THEN input
        ELSE LET task == from_str_TranslateTask(input.v)
             IN  IF task.ok THEN task
                 ELSE Err(<<"JSON parse error: ">> \o task.err)

\* where the caller's thread stands: outside any runtime, inside a runtime's
\* context without driving it (Runtime::enter, spawn_blocking,
\* block_in_place), or polling a task of a runtime
Contexts == {"none", "entered", "task"}

\* Handle::try_current().is_ok()
try_current(context) == context # "none"

\* Handle::block_on panics on a thread that is driving a runtime's tasks
block_on_panics(context) == context = "task"

\* the runtimes built by a call that got as far as `reached` says: one on the
\* else branch, dropped when the function returns
runtimes_built(reached, context) ==
    IF reached /\ ~try_current(context)
        THEN [built |-> 1, dropped |-> 1]
        ELSE [built |-> 0, dropped |-> 0]

\* the backend's operation is awaited inside block_on
backend_invoked(reached, context, input) ==
    IF reached /\ ~block_on_panics(context) THEN Some(input) ELSE None

\* create_translator(json_str)
create_translator_result(json_str, outcome) ==
    LET value == json_arg(json_str)
    IN  IF ~value.ok THEN value
        ELSE IF outcome.ok THEN Ok(outcome.v)
        ELSE Err(<<"Creation error: ">> \o outcome.err)

\* convert_string_vec_to_c_array: lib/src/ffi.rs
convert_string_vec_to_c_array(strings) ==
    IF \E i \in 1..Len(strings) : HasNul(strings[i])
        THEN Err(<<"nul byte found in provided data">>)
        ELSE Ok(0)

\* get_supported_input_languages / get_supported_output_languages
get_supported_languages_result(translator_ptr, list) ==
    IF is_null(translator_ptr) THEN Err(<<"Null pointer received">>)
    ELSE IF ~list.ok THEN Err(list.err)
    ELSE convert_string_vec_to_c_array(list.v)

\* a slip: the payload is the truth value, 1 for supported
is_supported_language_result_truth(translator_ptr, lang, res) ==
    LET l == text_arg(lang)
    IN  IF ~l.ok THEN l
        ELSE IF is_null(translator_ptr) THEN Err(<<"Null pointer received">>)
        ELSE IF ~res.ok THEN Err(res.err)
        ELSE IF res.v THEN Ok(1) ELSE Ok(0)

\* translator.is_supported_input_language(lang.to_string()) is reached only
\* with a language tag and a translator
is_supported_language_asked(translator_ptr, lang, res) ==
    IF text_arg(lang).ok /\ ~is_null(translator_ptr) THEN Some(res) ELSE None

\* is_supported_input_language / is_supported_output_language
is_supported_language_result(translator_ptr, lang, res) ==
    LET l == text_arg(lang)
    IN  IF ~l.ok THEN l
        ELSE IF is_null(translator_ptr) THEN Err(<<"Null pointer received">>)
        ELSE IF ~res.ok THEN Err(res.err)
        ELSE IF res.v THEN Ok(0) ELSE Ok(1)

\* TranslateResult::into_ffi_unbox
into_ffi_unbox(r) ==
    [reasoning |-> opt_into_raw(r.reasoning), content |-> opt_into_raw(r.content)]

\* call_translate(translator_ptr, json_str), on either runtime path, where
\* task is what its prologue made of json_str
call_translate_result(translator_ptr, task, ambient, outcome) ==
        IF ~task.ok THEN task
        ELSE IF is_null(translator_ptr) THEN Err(<<"Null pointer received">>)
        ELSE IF ~outcome.ok
            THEN IF ambient THEN Err(<<"JSON parse error: ">> \o outcome.err)
                            ELSE Err(outcome.err)
            ELSE Ok(into_ffi_unbox(outcome.v))

\* call_translate gets as far as block_on
call_translate_reached(translator_ptr, task) ==
    task.ok /\ ~is_null(translator_ptr)

call_translate_panics(translator_ptr, task, outcome) ==
    /\ call_translate_reached(translator_ptr, task)
    /\ outcome.ok /\ TranslateResult_into_ffi_panics(outcome.v)

\* a slip: the handle is used without the null test
call_translate_stream_result_unchecked(translator_ptr, task, outcome) ==
        IF ~task.ok THEN task
        ELSE IF ~outcome.ok THEN Err(outcome.err)
        ELSE Ok(0)

\* call_translate_stream(translator_ptr, json_str, ..): its envelope, given
\* how the backend's translate_stream ended
call_translate_stream_result(translator_ptr, task, outcome) ==
        IF ~task.ok THEN task
        ELSE IF is_null(translator_ptr) THEN Err(<<"Null pointer received">>)
        ELSE IF ~outcome.ok THEN Err(outcome.err)
        ELSE Ok(0)

\* the entry point returns r.to_ptr(); a panic inside an extern "C" function
\* ends the process
boundary_return(o, r, panics) ==
    /\ op' = o
    /\ wrapped' = Some(r)
    /\ IF panics \/ to_ptr_panics(r)
          THEN host' = "aborted" /\ envelope' = None
          ELSE host' = "returned" /\ envelope' = Some(to_ptr(r))
    /\ unwrapped' = None
    /\ ret' = None
    /\ UNCHANGED <<backtrace, proxyVars,
                   backendVars, sinkVars, consumerVars, s2nVars, bridgeVars>>

\* what a call leaves for the record
called(a, input, cbs, built) ==
    /\ args' = a
    /\ invoked' = input
    /\ callbacks' = cbs
    /\ runtimes' = built

create_translator ==
    /\ host = "idle"
    /\ \E json_str \in TextArgs, context \in Contexts, outcome \in Outcomes({"translator"}) :
        LET reached == json_arg(json_str).ok
        IN  /\ boundary_return("create_translator",
                               create_translator_result(json_str, outcome),
                               reached /\ block_on_panics(context))
            /\ called([json_str |-> json_str, context |-> context, outcome |-> outcome],
                      backend_invoked(reached, context, json_str),
                      0, runtimes_built(reached, context))
    /\ answer' = None

get_supported_languages ==
    /\ host = "idle"
    /\ \E o \in {"get_supported_input_languages", "get_supported_output_languages"},
          translator_ptr \in HandleArgs,
          list \in Outcomes({<<>>, << <<"z", "h">>, <<"e", "n">> >>, << <<"a", NUL>> >>}) :
        /\ boundary_return(o, get_supported_languages_result(translator_ptr, list), FALSE)
        /\ called([translator_ptr |-> translator_ptr, outcome |-> list],
                  IF is_null(translator_ptr) THEN None ELSE Some("self"),
                  0, runtimes_built(FALSE, "none"))
    /\ answer' = None

is_supported_language ==
    /\ host = "idle"
    /\ \E o \in {"is_supported_input_language", "is_supported_output_language"},
          translator_ptr \in HandleArgs, lang \in LangArgs, res \in Outcomes(BOOLEAN) :
           /\ boundary_return(o, is_supported_language_result(translator_ptr, lang, res), FALSE)
           /\ answer' = is_supported_language_asked(translator_ptr, lang, res)
           /\ called([translator_ptr |-> translator_ptr, lang |-> lang, outcome |-> res,
                      backend |-> "any"],
                     IF is_supported_language_asked(translator_ptr, lang, res) = None
                         THEN None ELSE Some(lang),
                     0, runtimes_built(FALSE, "none"))

\* HunyuanTransLanguages::try_from(tag), on the tags tried: the primary
\* language is looked up in the service's list
HunyuanTransLanguages_try_from(tag) ==
    IF tag \in {<<"z", "h">>, <<"e", "n">>}
        THEN Ok(tag)
        ELSE Err(<<"Unsupported language tag: ">> \o tag)

\* a slip: a tag that does not parse counts as unsupported
Hunyuan_is_supported_or_false(lang) ==
    LET tag == LanguageTag_parse(lang)
    IN  Ok(tag.ok /\ HunyuanTransLanguages_try_from(tag.v).ok)

\* HunyuanTranslator::is_supported_input_language / _output_language:
\*   Ok(HunyuanTransLanguages::try_from(LanguageTag::parse(lang.as_str())?).is_ok())
Hunyuan_is_supported(lang) ==
    LET tag == LanguageTag_parse(lang)
    IN  IF ~tag.ok THEN tag
        ELSE Ok(HunyuanTransLanguages_try_from(tag.v).ok)

\* the same entry points, generated for HunyuanTranslator
Hunyuan_is_supported_language ==
    /\ host = "idle"
    /\ \E o \in {"is_supported_input_language", "is_supported_output_language"},
          translator_ptr \in HandleArgs, lang \in LangArgs :
        LET asked == text_arg(lang).ok /\ ~is_null(translator_ptr)
            res == IF asked THEN Hunyuan_is_supported(lang.at) ELSE Ok(FALSE)
        IN  /\ boundary_return(o, is_supported_language_result(translator_ptr, lang, res),
                               FALSE)
            /\ answer' = is_supported_language_asked(translator_ptr, lang, res)
            /\ called([translator_ptr |-> translator_ptr, lang |-> lang, outcome |-> res,
                       backend |-> "hunyuan"],
                      IF asked THEN Some(lang) ELSE None,
                      0, runtimes_built(FALSE, "none"))

call_translate ==
    /\ host = "idle"
    /\ \E json_str \in TextArgs :
        LET task == task_arg(json_str)
        IN  \E translator_ptr \in HandleArgs, context \in Contexts,
               outcome \in Outcomes(UpstreamResults) :
            LET reached == call_translate_reached(translator_ptr, task)
            IN  /\ boundary_return("call_translate",
                                   call_translate_result(translator_ptr, task,
                                                         try_current(context), outcome),
                                   \/ reached /\ block_on_panics(context)
                                   \/ call_translate_panics(translator_ptr, task, outcome))
                /\ called([translator_ptr |-> translator_ptr, json_str |-> json_str,
                           context |-> context, outcome |-> outcome],
                          backend_invoked(reached, context, task),
                          0, runtimes_built(reached, context))
    /\ answer' = None

\* the chunks the backend's translate_stream enqueued are handed to the
\* callback by the relay, all of them when the stream ended well
call_translate_stream ==
    /\ host = "idle"
    /\ \E json_str \in TextArgs :
        LET task == task_arg(json_str)
        IN  \E translator_ptr \in HandleArgs, context \in Contexts,
               outcome \in Outcomes({"unit"}),
               enqueued \in 0..MaxDeltas, relayed \in 0..MaxDeltas :
            LET reached == call_translate_reached(translator_ptr, task)
                driven == reached /\ ~block_on_panics(context)
            IN  /\ relayed <= enqueued
                /\ outcome.ok => relayed = enqueued
                /\ ~driven => enqueued = 0
                /\ boundary_return("call_translate_stream",
                                   call_translate_stream_result(translator_ptr, task, outcome),
                                   reached /\ block_on_panics(context))
                /\ called([translator_ptr |-> translator_ptr, json_str |-> json_str,
                           context |-> context, outcome |-> outcome],
                          backend_invoked(reached, context, task),
                          relayed, runtimes_built(reached, context))
    /\ answer' = None

----------------------------------------------------------------------------
(* A library that exports is_supported_*_language without being generated  *)
(* by build_ffi: any function of the type IsSupportedInputLanguage         *)
(* (lib/src/ffi.rs) may answer, with any i8 in its envelope.               *)

Sentinels == {-1, 0, 1, 2}

foreign_is_supported_language ==
    /\ host = "idle"
    /\ \E o \in {"is_supported_input_language", "is_supported_output_language"},
          s \in Sentinels :
        /\ op' = o
        /\ wrapped' = Some(Ok(s))
        /\ envelope' = Some(Ptr([ptr |-> Ptr(s), err |-> NULL]))
    /\ host' = "returned"
    /\ unwrapped' = None
    /\ ret' = None
    /\ answer' = None
    /\ UNCHANGED <<backtrace, callVars, proxyVars,
                   backendVars, sinkVars, consumerVars, s2nVars, bridgeVars>>

----------------------------------------------------------------------------
(* ProxyTranslator: lib/src/ffi_proxy.rs.  Every method unwraps the         *)
(* envelope of its boundary call and makes its own result of the payload.  *)

\* is_supported_input_language / is_supported_output_language:
\*   let b = Box::from_raw(unwrap_handle_result(ret)?);  Ok(*b == 0i8)
ProxyTranslator_is_supported(u) ==
    IF u.ok THEN Ok(u.v.at = 0) ELSE u

ProxyTranslator_return ==
    /\ host = "returned"
    /\ LET u == unwrap_handle_result(Unwrap(envelope))
       IN  /\ unwrapped' = Some(u)
           /\ ret' = Some(IF op \in {"is_supported_input_language",
                                     "is_supported_output_language"}
                             THEN ProxyTranslator_is_supported(u)
                             ELSE u)
    /\ envelope' = None
    \* calls do not depend on one another: one call is followed to its end
    /\ host' = "done"
    /\ UNCHANGED <<op, wrapped, backtrace, answer, callVars, proxyVars,
                   backendVars, sinkVars, consumerVars, s2nVars, bridgeVars>>

BackendIdle ==
    /\ kind = "none" /\ pc = "idle" /\ upN = 0 /\ upMax = 0
    /\ cache = <<>> /\ es = "none" /\ data = None

InitEnv ==
    /\ BackendIdle
    /\ SinkInit(0)
    /\ ConsumerIdle
    /\ S2NIdle
    /\ BridgeIdle
    /\ host = "idle" /\ op = "none" /\ backtrace \in BOOLEAN
    /\ wrapped = None /\ envelope = None /\ unwrapped = None /\ ret = None
    /\ answer = None
    /\ CallIdle
    /\ ProxyIdle

NextEnv ==
    \/ create_translator
    \/ get_supported_languages
    \/ is_supported_language
    \/ Hunyuan_is_supported_language
    \/ call_translate
    \/ call_translate_stream
    \/ foreign_is_supported_language
    \/ ProxyTranslator_return

SpecEnv == InitEnv /\ [][NextEnv]_vars

----------------------------------------------------------------------------
(* The life of a ProxyTranslator: lib/src/ffi_proxy.rs.  Each method is one  *)
(* step: symbol lookup, the boundary call, unwrap_handle_result and what    *)
(* the method does with the payload.  What is allocated and what is freed   *)
(* on the way is listed buffer by buffer.                                   *)

RECURSIVE Count(_, _)
Count(seq, k) ==
    IF seq = <<>> THEN 0
    ELSE (IF Head(seq) = k THEN 1 ELSE 0) + Count(Tail(seq), k)

\* per kind of buffer: allocated and not freed (negative: freed twice)
outstanding(allocs, frees) ==
    [k \in BufferKinds |-> Count(allocs, k) - Count(frees, k)]

\* Box::into_raw / CString::into_raw of r.to_ptr()
to_ptr_allocs(r) ==
    IF r.ok THEN <<"payload", "envelope">> ELSE <<"err", "envelope">>

\* Box::from_raw(result) and CString::from_raw(result.err) in unwrap_handle_result
unwrap_frees(res) ==
    IF is_null(res) THEN <<>>
    ELSE <<"envelope">> \o (IF is_null(res.at.err) THEN <<>> ELSE <<"err">>)

\* what convert_string_vec_to_c_array leaves allocated when it succeeds: one
\* string per item and, unless the list is empty, the boxed slice
c_array_allocs(strings) ==
    IF strings = <<>> THEN <<>>
    ELSE <<"array">> \o [i \in 1..Len(strings) |-> "str"]

\* free_supported_languages(array, len): every element that is not null,
\* then the boxed slice
free_supported_languages(array, len) ==
    IF is_null(array) \/ len = 0 THEN <<>>
    ELSE SelectSeq([i \in 1..len |-> IF is_null(array.at[i]) THEN "none" ELSE "str"],
                   LAMBDA k : k = "str")
         \o <<"array">>

\* a slip: the reasoning text is left allocated
free_translate_result_content_only(res) ==
    IF is_null(res) THEN <<>>
    ELSE (IF is_null(res.at.content) THEN <<>> ELSE <<"str">>) \o <<"payload">>

\* free_translate_result(result): the reasoning text, the content text, and
\* the boxed struct when it goes out of scope
free_translate_result(res) ==
    IF is_null(res) THEN <<>>
    ELSE (IF is_null(res.at.reasoning) THEN <<>> ELSE <<"str">>)
         \o (IF is_null(res.at.content) THEN <<>> ELSE <<"str">>)
         \o <<"payload">>

\* the array convert_string_vec_to_c_array hands out for a list
c_array(strings) == Ptr([i \in 1..Len(strings) |-> Ptr(strings[i])])

\* the strings of a TranslateResultFFI
ffi_strings(r) ==
    (IF IsSome(r.reasoning) THEN <<"str">> ELSE <<>>)
    \o (IF IsSome(r.content) THEN <<"str">> ELSE <<>>)

\* serde_json::to_string(..) of a config or a task, as a C string
JsonText == Ptr(<<"{", "}">>)

\* the task the proxy's callers translate, and its text
PlainTask ==
    [id |-> <<"i">>, content |-> <<"c">>, source_language |-> Some(<<"e", "n">>),
     target_language |-> Some(<<"z", "h">>), user_prompt |-> None,
     system_prompt |-> None, field |-> None, terms |-> <<T1>>, references |-> <<>>,
     extra |-> None]
TaskText == Ptr(to_string_TranslateTask(PlainTask))
\* what the entry point's prologue makes of that text
PlainTaskArg == task_arg(TaskText)

\* language tags a caller may pass as a String
ProxyLangs == { <<"e", "n">>, <<NUL>> }

\* libraries made by build_ffi export everything; others may not
ExportSets ==
    { Symbols,
      Symbols \ {"get_supported_input_languages", "get_supported_output_languages"},
      Symbols \ {"create_translator"} }

\* libloading: Library::get on a symbol the library lacks
symbol_missing == Err(<<"undefined symbol">>)

\* a method returned r without calling across the boundary
proxy_no_call(o, r) ==
    /\ op' = o
    /\ ret' = Some(r)
    /\ wrapped' = None /\ unwrapped' = None
    /\ live' = NoBuffers
    /\ UNCHANGED <<host, calledWith>>

\* a method called across the boundary: the entry point returned w.to_ptr(),
\* or panicked; the method unwrapped it to u and returned r
proxy_call(o, w, panics, r, allocs, frees) ==
    /\ op' = o
    /\ wrapped' = Some(w)
    \* every entry point but create_translator is given the handle
    /\ calledWith' = IF o = "new" THEN calledWith
                                  ELSE calledWith \cup {<<released, lib>>}
    /\ IF panics \/ to_ptr_panics(w)
          THEN /\ host' = "aborted"
               /\ unwrapped' = None /\ ret' = None
               /\ live' = NoBuffers
          ELSE /\ host' = host
               /\ unwrapped' = Some(unwrap_handle_result(to_ptr(w)))
               /\ ret' = Some(r)
               /\ live' = outstanding(allocs, frees)

\* a JSON object with the given members
JObject(members) == [json |-> "object", members |-> members]

\* serde_json: value[key] reads Null from anything that lacks the key
Index(value, key) ==
    IF value.json = "object" /\ key \in DOMAIN value.members
        THEN value.members[key]
        ELSE JNull

\* serde_json: Value::as_str
as_str(value) == IF value.json = "string" THEN Some(value.s) ELSE None

\* serde_json: value[key] = x takes null for the empty object, and panics on
\* a value that is neither an object nor null
IndexMut_panics(value) == value.json \notin {"object", "null"}
IndexMut(value, key, x) ==
    LET members == IF value.json = "null" THEN <<>> ELSE value.members
    IN  JObject([k \in DOMAIN members \cup {key} |->
                    IF k = key THEN x ELSE members[k]])

\* configuration values a caller may hand over, and library paths
OtherPath == <<"o", ".", "s", "o">>
PluginPath == <<"p", ".", "s", "o">>
Configs ==
    { JNull,
      JObject(<<>>),
      JObject([k \in {"_dll_path"} |-> JStr(OtherPath)]),
      JObject([k \in {"_dll_path"} |-> JNum(1)]),
      JArr(<<>>) }

\* the body of ProxyTranslator::new(config); from is the call of load that
\* made the config, if one did
ProxyTranslator_new_body(config, from) ==
    LET dll_path == as_str(Index(config, "_dll_path"))
    IN
    /\ args' = [config |-> config, Library_new |-> dll_path, load |-> from]
    /\ \E opens \in BOOLEAN, outcome \in Outcomes({"translator"}) :
        IF ~IsSome(dll_path)
            THEN /\ proxy_no_call("new", Err(<<"missing argument: path">>))
                 /\ UNCHANGED <<owner, lib, handle, instance>>
        ELSE IF ~opens
            THEN /\ proxy_no_call("new", Err(<<"cannot open shared object file">>))
                 /\ UNCHANGED <<owner, lib, handle, instance>>
        ELSE IF "create_translator" \notin exports
            THEN /\ proxy_no_call("new", symbol_missing)
                 /\ lib' = "unmapped"
                 /\ UNCHANGED <<owner, handle, instance>>
        ELSE LET w == create_translator_result(JsonText, outcome)
                 u == unwrap_handle_result(to_ptr(w))
             IN  /\ proxy_call("new", w, FALSE,
                               IF u.ok THEN Ok("ProxyTranslator") ELSE u,
                               \* the payload is the backend, kept as the handle
                               <<"text", "envelope">>
                                   \o (IF w.ok THEN <<>> ELSE <<"err">>),
                               unwrap_frees(to_ptr(w)))
                 /\ instance' = IF w.ok THEN "live" ELSE instance
                 /\ IF ~to_ptr_panics(w) /\ u.ok
                       THEN owner' = "live" /\ lib' = "mapped" /\ handle' = u.v
                       ELSE owner' = owner /\ lib' = "unmapped" /\ handle' = handle
    /\ UNCHANGED <<released, releasedWith, exports, envelope, backtrace, answer,
                   invoked, callbacks, runtimes, loadVars,
                   backendVars, sinkVars, consumerVars, s2nVars, bridgeVars>>

\* ProxyTranslator::new(config)
ProxyTranslator_new ==
    /\ owner = "none" /\ host = "idle"
    /\ \E config \in Configs : ProxyTranslator_new_body(config, None)

\* ProxyTranslator::load(path, config)
ProxyTranslator_load ==
    /\ owner = "none" /\ host = "idle"
    /\ \E config \in Configs :
        LET from == Some([path |-> PluginPath, config |-> config])
        IN  IF IndexMut_panics(config)
                \* the caller's task unwinds at the assignment
                THEN /\ host' = "panicked"
                     /\ op' = "load"
                     /\ args' = [config |-> config, Library_new |-> None, load |-> from]
                     /\ wrapped' = None /\ unwrapped' = None /\ ret' = None
                     /\ UNCHANGED <<owner, lib, handle, instance, released,
                                    releasedWith, exports, live, calledWith,
                                    envelope, backtrace, answer,
                                    invoked, callbacks, runtimes, loadVars,
                                    backendVars, sinkVars, consumerVars, s2nVars,
                                    bridgeVars>>
                ELSE ProxyTranslator_new_body(
                         IndexMut(config, "_dll_path", JStr(PluginPath)), from)

\* a slip: the entry point takes the backend back with from_ptr, and drops
\* it on its way out
proxy_frame_consuming ==
    /\ instance' = "destroyed"
    /\ UNCHANGED <<owner, lib, handle, released, releasedWith, exports,
                   envelope, backtrace, answer, callVars, loadVars,
                   backendVars, sinkVars, consumerVars, s2nVars, bridgeVars>>

\* what a method leaves alone
proxy_frame ==
    UNCHANGED <<owner, lib, handle, instance, released, releasedWith, exports,
                envelope, backtrace, answer, callVars, loadVars,
                backendVars, sinkVars, consumerVars, s2nVars, bridgeVars>>

\* &self: the value exists and nobody is dropping it
borrowed == owner = "live" /\ host = "idle"

\* ProxyTranslator::get_supported_input_languages / _output_languages
ProxyTranslator_get_supported_languages ==
    /\ borrowed
    /\ \E o \in {"get_supported_input_languages", "get_supported_output_languages"},
          list \in Outcomes({<<>>, << <<"z", "h">>, <<"e", "n">> >>, << <<"a", NUL>> >>}) :
        IF o \notin exports
            THEN proxy_no_call(o, symbol_missing)
            ELSE LET w == get_supported_languages_result(handle, list)
                     u == unwrap_handle_result(to_ptr(w))
                 IN  proxy_call(o, w, FALSE,
                                \* ProxyTranslator::unwrap_ffi_list
                                IF u.ok THEN Ok(list.v) ELSE u,
                                to_ptr_allocs(w)
                                    \o (IF w.ok THEN c_array_allocs(list.v) ELSE <<>>),
                                unwrap_frees(to_ptr(w))
                                    \o (IF u.ok THEN free_supported_languages(c_array(list.v),
                                                                            Len(list.v))
                                                ELSE <<>>))
    /\ proxy_frame

\* ProxyTranslator::is_supported_input_language / _output_language
ProxyTranslator_is_supported_language ==
    /\ borrowed
    /\ \E o \in {"is_supported_input_language", "is_supported_output_language"},
          lang \in ProxyLangs, res \in Outcomes(BOOLEAN) :
        IF o \notin exports
            THEN proxy_no_call(o, symbol_missing)
        ELSE IF HasNul(lang)
            \* CString::new(lang)?
            THEN proxy_no_call(o, Err(<<"nul byte found in provided data">>))
        ELSE LET w == is_supported_language_result(handle, Ptr(lang), res)
                 u == unwrap_handle_result(to_ptr(w))
             IN  proxy_call(o, w, FALSE,
                            ProxyTranslator_is_supported(u),
                            <<"text">> \o to_ptr_allocs(w),
                            \* Box::from_raw(unwrap_handle_result(ret)?)
                            unwrap_frees(to_ptr(w))
                                \o (IF u.ok THEN <<"payload">> ELSE <<>>))
    /\ proxy_frame

\* ProxyTranslator::translate
ProxyTranslator_translate ==
    /\ borrowed
    /\ \E ambient \in BOOLEAN, outcome \in Outcomes(UpstreamResults) :
        IF "call_translate" \notin exports
            THEN proxy_no_call("call_translate", symbol_missing)
        ELSE LET w == call_translate_result(handle, PlainTaskArg, ambient, outcome)
                 u == unwrap_handle_result(to_ptr(w))
             IN  proxy_call("call_translate", w,
                            call_translate_panics(handle, PlainTaskArg, outcome),
                            IF u.ok THEN TranslateResult_from_ffi(u.v) ELSE u,
                            <<"text">> \o to_ptr_allocs(w)
                                \o (IF w.ok THEN ffi_strings(outcome.v) ELSE <<>>),
                            \* TranslateResult::from_ffi
                            unwrap_frees(to_ptr(w))
                                \o (IF u.ok THEN <<"payload">> \o ffi_strings(outcome.v)
                                            ELSE <<>>))
    /\ proxy_frame

\* ProxyTranslator::translate_stream, by how the backend's call ended
ProxyTranslator_translate_stream ==
    /\ borrowed
    /\ \E outcome \in Outcomes({"unit"}) :
        IF "call_translate_stream" \notin exports
            THEN proxy_no_call("call_translate_stream", symbol_missing)
        ELSE LET w == call_translate_stream_result(handle, PlainTaskArg, outcome)
                 u == unwrap_handle_result(to_ptr(w))
             IN  proxy_call("call_translate_stream", w, FALSE,
                            IF u.ok THEN Ok("unit") ELSE u,
                            <<"text">> \o to_ptr_allocs(w),
                            unwrap_frees(to_ptr(w)))
    /\ proxy_frame

\* a slip: the library is closed first, the handle released after
ProxyTranslator_drop_lib_first ==
    /\ borrowed
    /\ owner' = "dropping"
    /\ lib' = "unmapped"
    /\ released' = released + 1
    /\ releasedWith' = releasedWith \cup {lib'}
    /\ UNCHANGED <<instance, handle, exports, live, calledWith,
                   host, op, wrapped, envelope, unwrapped, ret, backtrace, answer, callVars, loadVars,
                   backendVars, sinkVars, consumerVars, s2nVars, bridgeVars>>

\* impl Drop for ProxyTranslator: Box::from_raw(self.handle) is a
\* Box<TranslatorHandle>, a type of size zero without a destructor: dropping
\* it runs no code of the backend and frees nothing
ProxyTranslator_drop ==
    /\ borrowed
    /\ owner' = "dropping"
    /\ IF ~is_null(handle)
          THEN /\ released' = released + 1
               /\ releasedWith' = releasedWith \cup {lib}
          ELSE UNCHANGED <<released, releasedWith>>
    /\ UNCHANGED <<instance, lib, handle, exports, live, calledWith,
                   host, op, wrapped, envelope, unwrapped, ret, backtrace, answer, callVars, loadVars,
                   backendVars, sinkVars, consumerVars, s2nVars, bridgeVars>>

\* after Drop::drop the fields are dropped in order: lib (the library is
\* closed), then handle (a raw pointer: nothing)
ProxyTranslator_drop_fields ==
    /\ owner = "dropping"
    /\ owner' = "dropped"
    /\ lib' = "unmapped"
    /\ UNCHANGED <<instance, handle, released, releasedWith, exports, live, calledWith,
                   host, op, wrapped, envelope, unwrapped, ret, backtrace, answer, callVars, loadVars,
                   backendVars, sinkVars, consumerVars, s2nVars, bridgeVars>>

InitProxy ==
    /\ BackendIdle
    /\ SinkInit(0)
    /\ ConsumerIdle
    /\ S2NIdle
    /\ BridgeIdle
    /\ host = "idle" /\ op = "none" /\ backtrace = FALSE
    /\ wrapped = None /\ envelope = None /\ unwrapped = None /\ ret = None
    /\ answer = None
    /\ CallIdle
    /\ owner = "none" /\ lib = "none" /\ handle = NULL
    /\ instance = "none" /\ released = 0 /\ exports \in ExportSets
    /\ live = NoBuffers /\ calledWith = {} /\ releasedWith = {}
    /\ LoadIdle

NextProxy ==
    \/ ProxyTranslator_new
    \/ ProxyTranslator_load
    \/ ProxyTranslator_get_supported_languages
    \/ ProxyTranslator_is_supported_language
    \/ ProxyTranslator_translate
    \/ ProxyTranslator_translate_stream
    \/ ProxyTranslator_drop
    \/ ProxyTranslator_drop_fields

SpecProxy == InitProxy /\ [][NextProxy]_vars

----------------------------------------------------------------------------
(* load_translators: lib/src/ffi_proxy.rs.  An entry of the tree is known   *)
(* by its position in the walk, which also stands for its path.            *)

\* an entry WalkDir could not read
Unreadable == [ok |-> FALSE]

\* an entry it could: is it a file, its extension, whether its path is
\* UTF-8, and what Library::new, Library::get and get_plugin_name make of it
Entry_(is_file, ext, utf8, opens, symbol, name) ==
    [ok |-> TRUE, is_file |-> is_file, ext |-> ext, utf8 |-> utf8,
     opens |-> opens, symbol |-> symbol, name |-> name]

Entries ==
    { Unreadable,
      Entry_(TRUE, Some("so"), TRUE, TRUE, TRUE, Ptr("a")),
      Entry_(TRUE, Some("so"), TRUE, TRUE, TRUE, Ptr("b")),
      Entry_(TRUE, Some("DLL"), TRUE, TRUE, TRUE, Ptr("a")),
      Entry_(TRUE, Some("dylib"), TRUE, TRUE, TRUE, Ptr("a")),
      Entry_(TRUE, Some("DYLIB"), TRUE, TRUE, TRUE, Ptr("b")),
      Entry_(TRUE, Some("txt"), TRUE, TRUE, TRUE, Ptr("b")),
      Entry_(TRUE, None, TRUE, TRUE, TRUE, Ptr("b")),
      Entry_(TRUE, Some("so"), FALSE, TRUE, TRUE, Ptr("b")),
      Entry_(FALSE, Some("so"), TRUE, FALSE, FALSE, NULL),
      Entry_(TRUE, Some("so"), TRUE, FALSE, FALSE, NULL),
      Entry_(TRUE, Some("so"), TRUE, TRUE, FALSE, NULL),
      Entry_(TRUE, Some("so"), TRUE, TRUE, TRUE, NULL) }

\* the cfg-selected `extensions`
extensions ==
    CASE platform = "windows" -> {"dll"}
      [] platform = "linux" -> {"so"}
      [] platform = "macos" -> {"dylib"}
      [] OTHER -> {}

\* str::to_lowercase, on the extensions tried
to_lowercase(ext) ==
    CASE ext = "DLL" -> "dll"
      [] ext = "DYLIB" -> "dylib"
      [] OTHER -> ext

\* `ext_normalized`
ext_normalized(ext) == IF platform = "windows" THEN to_lowercase(ext) ELSE ext

\* the first loop's test of one entry
is_library_path(e) ==
    /\ e.ok
    /\ e.is_file
    /\ IsSome(e.ext)
    /\ ext_normalized(Unwrap(e.ext)) \in extensions
    /\ e.utf8

\* a slip: HashMap::entry(name).or_insert(path), which keeps the first path
insert_first(m, name, lib_path) ==
    IF \E pr \in m : pr[1] = name THEN m ELSE m \cup {<<name, lib_path>>}

\* HashMap::insert(name, path)
insert(m, name, lib_path) ==
    { pr \in m : pr[1] # name } \cup {<<name, lib_path>>}

\* for entry in WalkDir::new(root).into_iter().filter_map(|e| e.ok()) { .. }
load_translators_walk ==
    /\ load = "walk"
    /\ IF walked < Len(tree)
          THEN /\ walked' = walked + 1
               /\ libraries' = IF is_library_path(tree[walked + 1])
                                  THEN Append(libraries, walked + 1)
                                  ELSE libraries
               /\ load' = load
          ELSE /\ load' = "probe"
               /\ UNCHANGED <<walked, libraries>>
    /\ UNCHANGED <<platform, tree, map, loadRet>>
    /\ UNCHANGED <<host, op, wrapped, envelope, unwrapped, ret, backtrace, answer,
                   callVars, owner, lib, handle, instance, released, exports, live,
                   calledWith, releasedWith,
                   backendVars, sinkVars, consumerVars, s2nVars, bridgeVars>>

\* a slip: a library that cannot be opened fails the whole call
load_translators_probe_strict ==
    /\ load = "probe"
    /\ IF libraries # <<>>
          THEN LET lib_path == Head(libraries)
                   e == tree[lib_path]
               IN  IF ~e.opens
                      THEN /\ loadRet' = Some(Err(<<"cannot open shared object file">>))
                           /\ load' = "err"
                           /\ UNCHANGED <<libraries, map>>
                      ELSE /\ libraries' = Tail(libraries)
                           /\ map' = IF ~e.symbol \/ is_null(e.name) THEN map
                                     ELSE insert(map, e.name.at, lib_path)
                           /\ UNCHANGED <<load, loadRet>>
          ELSE /\ loadRet' = Some(Ok(map))
               /\ load' = "ok"
               /\ UNCHANGED <<libraries, map>>
    /\ UNCHANGED <<platform, tree, walked>>
    /\ UNCHANGED <<host, op, wrapped, envelope, unwrapped, ret, backtrace, answer,
                   callVars, owner, lib, handle, instance, released, exports, live,
                   calledWith, releasedWith,
                   backendVars, sinkVars, consumerVars, s2nVars, bridgeVars>>

\* for lib_path in libraries { .. }  and  Ok(map)
load_translators_probe ==
    /\ load = "probe"
    /\ IF libraries # <<>>
          THEN LET lib_path == Head(libraries)
                   e == tree[lib_path]
               IN  /\ libraries' = Tail(libraries)
                   /\ map' = IF ~e.opens THEN map            \* continue
                             ELSE IF ~e.symbol THEN map      \* continue
                             ELSE IF is_null(e.name) THEN map \* continue
                             ELSE insert(map, e.name.at, lib_path)
                   /\ UNCHANGED <<load, loadRet>>
          ELSE /\ loadRet' = Some(Ok(map))
               /\ load' = "ok"
               /\ UNCHANGED <<libraries, map>>
    /\ UNCHANGED <<platform, tree, walked>>
    /\ UNCHANGED <<host, op, wrapped, envelope, unwrapped, ret, backtrace, answer,
                   callVars, owner, lib, handle, instance, released, exports, live,
                   calledWith, releasedWith,
                   backendVars, sinkVars, consumerVars, s2nVars, bridgeVars>>

InitLoad ==
    /\ BackendIdle
    /\ SinkInit(0)
    /\ ConsumerIdle
    /\ S2NIdle
    /\ BridgeIdle
    /\ host = "idle" /\ op = "none" /\ backtrace = FALSE
    /\ wrapped = None /\ envelope = None /\ unwrapped = None /\ ret = None
    /\ answer = None
    /\ CallIdle
    /\ owner = "none" /\ lib = "none" /\ handle = NULL
    /\ instance = "none" /\ released = 0 /\ exports = Symbols
    /\ live = NoBuffers /\ calledWith = {} /\ releasedWith = {}
    /\ platform \in {"linux", "windows", "macos"}
    /\ tree \in UNION { [1..n -> Entries] : n \in 0..MaxFiles }
    /\ load = "walk" /\ walked = 0
    /\ libraries = <<>> /\ map = {} /\ loadRet = None

NextLoad ==
    \/ load_translators_walk
    \/ load_translators_probe

SpecLoad == InitLoad /\ [][NextLoad]_vars

----------------------------------------------------------------------------
(* Properties of the streaming bridge, checked under SpecStream *)

\* Start, then Deltas only, then End
StartDeltasEnd(seq) ==
    /\ Len(seq) >= 2
    /\ seq[1] = Start
    /\ seq[Len(seq)] = End
    /\ \A i \in 2..(Len(seq) - 1) : seq[i].tag = "Delta"

\* what a consumer that keeps reading has seen or will see without any
\* further callback
Observed == received \o out

\* C1: whenever ProxyTranslator::translate_stream has returned success and
\* the consumer has kept its receiver, the chunks the consumer observes are
\* exactly one Start, then zero or more Delta, then exactly one End.
C1_SuccessIsStartDeltasEnd ==
    (proxy = "ok" /\ consumer \in {"recv", "done"}) => StartDeltasEnd(Observed)

\* C2: within one call_translate_stream call the callback is invoked with
\* the chunks in exactly the order the translator enqueued them: at every
\* moment the chunks handed to the callback are an initial segment of the
\* chunks enqueued, nothing reordered and nothing handed over twice.
C2_CallbackInEnqueueOrder ==
    /\ Len(delivered) <= Len(emitted)
    /\ delivered = SubSeq(emitted, 1, Len(delivered))

\* three chunks or more went through the callback, two neighbours differing
C2_Witness ==
    /\ Len(delivered) >= 4
    /\ delivered[2] # delivered[3]
    /\ relay = "done"

\* C3: when call_translate_stream returns a success envelope every chunk
\* the translator enqueued was handed to the callback exactly once, the
\* relay channel is empty and the relay task has finished, on the ambient
\* and on the fresh runtime path alike.
C3_SuccessDeliversAll ==
    call = "ok" => (delivered = emitted /\ chan = <<>> /\ relay = "done")

----------------------------------------------------------------------------
(* Properties of stream2normal, checked under SpecS2N and SpecS2NFair *)

\* every step that can be taken is eventually taken: the translator's future
\* is polled for as long as stream2normal awaits it
SpecS2NFair == SpecS2N /\ WF_vars(NextS2N)

\* C4: stream2normal eventually returns, with a result or with an error,
\* whatever finite stream the translator emits, streams of more chunks than
\* the 64 slots of its channel included.
C4_Stream2NormalReturns == <>(s2n \in {"ok", "err"})

\* the text of the Delta chunks of a stream, in stream order
RECURSIVE DeltaContents(_)
DeltaContents(seq) ==
    IF seq = <<>>
        THEN <<>>
        ELSE (IF Head(seq).tag = "Delta" /\ Head(seq).res.content # None
                 THEN Head(seq).res.content[1]
                 ELSE <<>>)
             \o DeltaContents(Tail(seq))

\* C5: when stream2normal returns a result, its reasoning is None and its
\* content is the concatenation, in stream order, of the content of every
\* Delta chunk the translator emitted; Deltas without content add nothing.
C5_ContentIsConcatenation ==
    s2n = "ok" =>
        s2nRet = Some(TranslateResult(None, Some(DeltaContents(emitted))))

\* two Deltas with different text, and one without any, were collected
C5_Witness ==
    /\ s2n = "ok"
    /\ s2nRet = Some(TranslateResult(None, Some(<<"a", "b">>)))
    /\ \E i \in 1..Len(emitted) :
          emitted[i].tag = "Delta" /\ emitted[i].res.content = None

----------------------------------------------------------------------------
(* Properties of the backends' translate_stream, checked under SpecDirect *)

\* C6: once the one-shot translate of a normal2stream call has succeeded
\* with r, what the call has enqueued is an initial segment of Start,
\* Delta(r), End; the call returns success only with all three enqueued,
\* and returns an error only if the sink was closed.
C6_Normal2StreamShape ==
    (kind = "normal2stream" /\ data # None) =>
        LET full == <<Start, Delta(data[1]), End>>
        IN  /\ IsPrefix(emitted, full)
            /\ (pc = "ok" => emitted = full)
            /\ (pc = "err" => ~rxAlive)

\* a result with reasoning and content went through and success was returned
C6_Witness ==
    /\ kind = "normal2stream" /\ pc = "ok"
    /\ data = Some(TranslateResult(Some(<<"r">>), Some(<<"b">>)))
    /\ emitted = <<Start, Delta(data[1]), End>>
    /\ rxAlive

\* C7: for every backend, an End chunk is only ever the last chunk of a call
\* that returned (or is about to return) success: a call that returns an
\* error has enqueued no End, and nothing is enqueued after an End.
C7_EndOnlyOnSuccess ==
    \A i \in 1..Len(emitted) :
        emitted[i] = End => (i = Len(emitted) /\ pc = "ok")

\* a call failed after it had enqueued Start and a Delta
C7_Witness ==
    /\ pc = "err"
    /\ Len(emitted) >= 2
    /\ rxAlive

----------------------------------------------------------------------------
(* Properties of the result envelope and of the proxy, checked under       *)
(* SpecEnv                                                                 *)

\* C8: every envelope a boundary operation returns has exactly one side
\* populated: payload non-null and error null, or error non-null and payload
\* null; never both, never neither.
C8_ExactlyOneSide ==
    envelope # None =>
        /\ ~is_null(envelope[1])
        /\ is_null(envelope[1].at.ptr) # is_null(envelope[1].at.err)

\* an error envelope of call_translate is in the host's hands
C8_Witness ==
    /\ envelope # None
    /\ op = "call_translate"
    /\ ~is_null(envelope[1].at.err)
    /\ is_null(envelope[1].at.ptr)

\* m occurs in s as a contiguous run
Contains(s, m) ==
    \E i \in 0..(Len(s) - Len(m)) : SubSeq(s, i + 1, i + Len(m)) = m

\* C9: after to_ptr and unwrap_handle_result, a success value x comes back
\* as a pointer to a value equal to x, and an error with message m comes
\* back as a failure whose message contains m, whatever m is.
C9_WrapUnwrap ==
    unwrapped # None =>
        IF wrapped[1].ok
            THEN unwrapped[1] = Ok(Ptr(wrapped[1].v))
            ELSE /\ ~unwrapped[1].ok
                 /\ Contains(unwrapped[1].err, wrapped[1].err)

\* C10: ProxyTranslator::is_supported_input_language and
\* is_supported_output_language return Ok(true) exactly when the boundary
\* call's sentinel is 0, Ok(false) only when it is 1, and an error for every
\* other sentinel.
C10_SentinelConvention ==
    (/\ ret # None
     /\ op \in {"is_supported_input_language", "is_supported_output_language"}
     /\ wrapped[1].ok) =>
        LET sentinel == wrapped[1].v
        IN  /\ (ret[1] = Ok(TRUE)) <=> (sentinel = 0)
            /\ (ret[1] = Ok(FALSE)) => (sentinel = 1)
            /\ (sentinel \notin {0, 1}) => ~ret[1].ok

\* C11: the envelope the generated is_supported_input_language or
\* is_supported_output_language returns has payload 0 exactly when the
\* backend's predicate returned true, payload 1 exactly when it returned
\* false, and is an error envelope without payload exactly when the
\* predicate failed; no other payload is produced.
C11_SentinelOfPredicate ==
    (envelope # None /\ answer # None) =>
        LET e == envelope[1].at
            payload == IF is_null(e.ptr) THEN None ELSE Some(e.ptr.at)
        IN  /\ (payload = Some(0)) <=> (answer[1] = Ok(TRUE))
            /\ (payload = Some(1)) <=> (answer[1] = Ok(FALSE))
            /\ (payload = None /\ ~is_null(e.err)) <=> ~answer[1].ok
            /\ payload \in {None, Some(0), Some(1)}

\* the predicate said "not supported" and the envelope carries 1
C11_Witness ==
    /\ envelope # None
    /\ answer = Some(Ok(FALSE))
    /\ envelope[1].at.ptr = Ptr(1)

----------------------------------------------------------------------------
(* Properties of the proxy's life, checked under SpecProxy *)

\* C12: by the time a boundary operation that was given a text (the config
\* of create_translator, the task of call_translate and
\* call_translate_stream, the language tag of is_supported_*_language)
\* returns, that text has been released exactly once: after any sequence of
\* ProxyTranslator operations no text the proxy passed remains allocated.
C12_TextsReleased == live["text"] = 0

\* C13: after each ProxyTranslator operation, successful or not, the
\* envelope and every payload, error string, array and string obtained from
\* the boundary call have been released exactly once: nothing is left
\* allocated and nothing was released twice.
C13_ResultsReleased ==
    \A k \in BufferKinds \ {"text"} : live[k] = 0

\* C14: dropping a ProxyTranslator destroys the backend behind its handle,
\* once and before the library is unmapped: once Drop::drop has run the
\* backend is destroyed, and after the drop neither the backend nor the
\* library mapping remains.
C14_DropDestroysBackend ==
    /\ owner \in {"dropping", "dropped"} => instance = "destroyed"
    /\ owner = "dropped" => lib = "unmapped"

\* C15: whatever the sequence of public operations, every boundary call
\* that takes the handle is made while the handle is unreleased and the
\* library mapped, the handle is released at most once, and it is released
\* while the library is still mapped.
C15_NoUseAfterRelease ==
    /\ calledWith \subseteq {<<0, "mapped">>}
    /\ releasedWith \subseteq {"mapped"}
    /\ released <= 1

\* a proxy that served calls has been dropped: handle released, library closed
C15_Witness ==
    /\ owner = "dropped"
    /\ calledWith # {}
    /\ released = 1
    /\ lib = "unmapped"
    /\ op = "call_translate"

----------------------------------------------------------------------------
(* Properties of the bridge under load, checked under SpecBackpressure *)

\* chunks between the backend and the caller's consumer
InFlight == Len(chan) + Len(inflight) + Len(out)

\* C17: the relay channel never holds more than 256 chunks and the chunks in
\* flight never exceed the two capacities plus the one the relay holds; the
\* backend enqueues only while the relay channel has room, the callback
\* forwards only while the caller's channel has room, and the relay takes
\* its next chunk only after the callback has returned.
C17_Backpressure ==
    /\ [](/\ Len(chan) <= relay_cap
          /\ Len(out) <= outCap
          /\ InFlight <= relay_cap + outCap + 1)
    /\ [][/\ (emitted' # emitted => Len(chan) < relay_cap)
          /\ (Len(out') > Len(out) => Len(out) < outCap)
          /\ (delivered' # delivered => inflight = None)]_vars

\* the relay channel is full with the backend about to send End, the callback
\* is held by the caller's full channel, and the caller has read something
C17_Witness ==
    /\ Len(chan) = relay_cap
    /\ pc = "end"
    /\ inflight # None
    /\ Len(out) = outCap
    /\ received # <<>>

----------------------------------------------------------------------------
(* A consumer that closes its channel, checked under SpecStream *)

\* C16: when the consumer closes its receiving channel during a
\* translate_stream call made through ProxyTranslator, the call ends by
\* returning to its caller: the process is not aborted, neither in the
\* backend, nor in the relay, nor in the proxy.
C16_CloseEndsTheCall ==
    ~outAlive =>
        /\ proxy \in {"call", "ok", "err"}
        /\ call # "aborted"
        /\ relay # "aborted"
        /\ pc # "aborted"

----------------------------------------------------------------------------
(* Plugin discovery, checked under SpecLoad *)

\* the entry is a library file of this platform that opens, exports
\* get_plugin_name and reports a name
ValidPlugin(e) ==
    /\ e.ok /\ e.is_file /\ e.utf8
    /\ e.ext \in {Some(x) : x \in extensions} \cup
                 (IF platform = "windows" THEN {Some("DLL")} ELSE {})
    /\ e.opens /\ e.symbol /\ ~e.name.null

\* the entry has the platform's extension but is no plugin
BadCandidate(e) ==
    /\ e.ok /\ e.is_file /\ e.utf8
    /\ e.ext = Some("so") /\ platform = "linux"
    /\ ~(e.opens /\ e.symbol /\ ~e.name.null)

\* C18: load_translators never returns an error; a file that cannot be
\* opened, lacks get_plugin_name or reports a null name has no entry in the
\* returned mapping, and every valid plugin's name still has one.
C18_DiscoveryNeverFails ==
    /\ load # "err"
    /\ loadRet # None =>
          /\ loadRet[1].ok
          /\ \A pr \in loadRet[1].v : ValidPlugin(tree[pr[2]])
          /\ \A i \in 1..Len(tree) :
                ValidPlugin(tree[i]) =>
                    \E pr \in loadRet[1].v : pr[1] = tree[i].name.at

\* the call has returned a non-empty mapping for a tree in which a file that
\* cannot be opened, or has no name to give, precedes a valid plugin
C18_Witness ==
    /\ loadRet # None
    /\ loadRet[1].ok
    /\ loadRet[1].v # {}
    /\ \E i, j \in 1..Len(tree) :
          i < j /\ BadCandidate(tree[i]) /\ ValidPlugin(tree[j])

\* C19: the returned mapping holds exactly the names reported by the valid
\* plugins of the tree, one entry per name, and the path of a name is that of
\* the last enumerated valid plugin reporting it (its own path when the name
\* is reported once).
C19_RegistryIsLastPerName ==
    loadRet # None =>
        /\ loadRet[1].ok
        /\ loadRet[1].v =
              { <<tree[i].name.at, i>> : i \in
                  { k \in 1..Len(tree) :
                      /\ ValidPlugin(tree[k])
                      /\ \A l \in (k + 1)..Len(tree) :
                            ValidPlugin(tree[l]) =>
                                tree[l].name.at # tree[k].name.at } }

\* two valid plugins report the same name, a third another, and the returned
\* mapping has two names, the shared one mapped to the later file
C19_Witness ==
    /\ loadRet # None
    /\ Cardinality(loadRet[1].v) = 2
    /\ \E i, j \in 1..Len(tree) :
          /\ i < j
          /\ ValidPlugin(tree[i]) /\ ValidPlugin(tree[j])
          /\ tree[i].name.at = tree[j].name.at
          /\ <<tree[j].name.at, j>> \in loadRet[1].v

----------------------------------------------------------------------------
(* An optional capability the library does not export, checked under        *)
(* SpecProxy                                                                *)

\* C20: when the library exports no get_supported_input_languages (or
\* get_supported_output_languages), the proxy's query of that name does not
\* return an error: it answers that nothing is restricted.
C20_MissingSymbolIsUnspecified ==
    ( /\ op \in {"get_supported_input_languages", "get_supported_output_languages"}
      /\ op \notin exports
      /\ ret # None )
    => ret[1].ok

----------------------------------------------------------------------------
(* Task documents at the entry points, checked under SpecEnv *)

\* the keys of the members of a document
KeysOf(doc) == { Key(MemberOf(doc[i])) : i \in 2..(Len(doc) - 1) }

\* a text that is not UTF-8, not JSON, or a document without one of the
\* required fields
Malformed(json_str) ==
    /\ ~is_null(json_str)
    /\ \/ ~ValidUtf8(json_str.at)
       \/ ~IsJson(json_str.at)
       \/ \E k \in {"id", "content", "terms", "references"} : k \notin KeysOf(json_str.at)

\* C21: call_translate and call_translate_stream given a task document that
\* is not UTF-8, not JSON or lacks id, content, terms or references return an
\* error envelope without invoking the backend's translate or
\* translate_stream and without invoking the callback; a document with the
\* required fields only is accepted, and the backend is given a task whose
\* optional fields are all absent.
C21_MalformedTaskRejected ==
    op \in {"call_translate", "call_translate_stream"} =>
        /\ Malformed(args.json_str) =>
              /\ host # "aborted"
              /\ ~wrapped[1].ok
              /\ envelope # None =>
                    is_null(envelope[1].at.ptr) /\ ~is_null(envelope[1].at.err)
              /\ invoked = None
              /\ callbacks = 0
        /\ (/\ args.json_str = Ptr(MinimalTask)
            /\ ~is_null(args.translator_ptr)
            /\ args.context # "task") =>
              /\ invoked # None
              /\ invoked[1].ok
              /\ \A k \in {"source_language", "target_language", "user_prompt",
                           "system_prompt", "field", "extra"} : invoked[1].v[k] = None

\* call_translate_stream was given a document without `terms` and a
\* translator, and its error envelope is in the caller's hands
C21_Witness ==
    /\ op = "call_translate_stream"
    /\ ~is_null(args.json_str)
    /\ IsJson(args.json_str.at)
    /\ KeysOf(args.json_str.at) = {"id", "content", "references"}
    /\ ~is_null(args.translator_ptr)
    /\ envelope # None
    /\ ~is_null(envelope[1].at.err)

----------------------------------------------------------------------------
(* create_translator, checked under SpecEnv *)

\* C22: create_translator returns an envelope; the envelope carries an error
\* and no handle when the config text is null, not JSON, or the backend's
\* constructor fails, carries a handle and no error otherwise, and no backend
\* instance exists after a failed create.  The caller is not polling a task.
C22_CreateReturnsHandleOrError ==
    (op = "create_translator" /\ args.context # "task") =>
        LET fails == \/ ~json_arg(args.json_str).ok
                     \/ ~args.outcome.ok
        IN  /\ host # "aborted"
            /\ envelope # None =>
                  IF fails
                      THEN is_null(envelope[1].at.ptr) /\ ~is_null(envelope[1].at.err)
                      ELSE ~is_null(envelope[1].at.ptr) /\ is_null(envelope[1].at.err)
            /\ (fails /\ invoked # None) => ~args.outcome.ok

----------------------------------------------------------------------------
(* Language-support queries, checked under SpecEnv *)

\* a language tag of the kind LanguageTag::parse rejects: a primary
\* language shorter than two letters
Unparseable(lang) == Len(lang) < 2

\* C23: a language-support query of HunyuanTranslator whose language tag
\* cannot be parsed returns an envelope with the error side set and no
\* sentinel, which the proxy surfaces as an error; an envelope of a generated
\* query that carries a sentinel carries 0 or 1, and the proxy's successful
\* answers are the two truth values.
C23_UnparseableTagIsError ==
    (op \in {"is_supported_input_language", "is_supported_output_language"}
        /\ invoked # None) =>
        /\ (args.backend = "hunyuan" /\ Unparseable(args.lang.at)) =>
              /\ host # "aborted"
              /\ envelope # None =>
                    is_null(envelope[1].at.ptr) /\ ~is_null(envelope[1].at.err)
              /\ ret # None => ~ret[1].ok
        /\ (envelope # None /\ ~is_null(envelope[1].at.ptr)) =>
              envelope[1].at.ptr.at \in {0, 1}
        /\ (ret # None /\ ret[1].ok) => ret[1].v \in BOOLEAN

\* the proxy has surfaced the error of a query about the tag "e"
C23_Witness ==
    /\ op = "is_supported_input_language"
    /\ invoked = Some(Ptr(<<"e">>))
    /\ args.backend = "hunyuan"
    /\ ret # None
    /\ ~ret[1].ok

----------------------------------------------------------------------------
(* The execution context of the asynchronous entry points, checked under    *)
(* SpecEnv                                                                  *)

\* the call got past its prologue, to the point where the backend is awaited
ReachedBlockOn ==
    \/ op = "create_translator" /\ json_arg(args.json_str).ok
    \/ /\ op \in {"call_translate", "call_translate_stream"}
       /\ task_arg(args.json_str).ok
       /\ ~is_null(args.translator_ptr)

\* C24: create_translator, call_translate and call_translate_stream work
\* from both kinds of caller: with a context active the backend's work is
\* driven on it and no runtime is built; without one exactly one runtime is
\* built and it is gone when the call returns; in both cases the backend's
\* work has run when the call ends.
C24_BothKindsOfCaller ==
    ReachedBlockOn =>
        /\ invoked # None
        /\ runtimes = IF args.context = "none"
                          THEN [built |-> 1, dropped |-> 1]
                          ELSE [built |-> 0, dropped |-> 0]

\* C29: for the same handle, task and backend outcome, call_translate hands
\* the same result to its envelope on the ambient runtime as on a runtime of
\* its own: what it returned on one branch is what the other branch returns.
C29_SameEnvelopeOnEitherRuntime ==
    (op = "call_translate" /\ args.context # "task") =>
        wrapped[1] = call_translate_result(args.translator_ptr, task_arg(args.json_str),
                                           ~try_current(args.context), args.outcome)

----------------------------------------------------------------------------
(* Null arguments at the entry points, checked under SpecEnv *)

\* the last call was a generated entry point given a null handle or a null
\* text
NullArgument ==
    /\ args # <<>>
    /\ \/ op = "create_translator" /\ is_null(args.json_str)
       \/ /\ op \in {"get_supported_input_languages", "get_supported_output_languages"}
          /\ is_null(args.translator_ptr)
       \/ /\ op \in {"is_supported_input_language", "is_supported_output_language"}
          /\ is_null(args.translator_ptr) \/ is_null(args.lang)
       \/ /\ op \in {"call_translate", "call_translate_stream"}
          /\ is_null(args.translator_ptr) \/ is_null(args.json_str)

\* C30: a generated boundary operation called with a null handle or a null
\* text argument returns an error envelope; the backend's operation is not
\* invoked (the handle is not dereferenced) and the callback is not invoked.
C30_NullArgumentIsError ==
    NullArgument =>
        /\ host # "aborted"
        /\ ~wrapped[1].ok
        /\ envelope # None =>
              is_null(envelope[1].at.ptr) /\ ~is_null(envelope[1].at.err)
        /\ invoked = None
        /\ callbacks = 0
        /\ answer = None

\* call_translate_stream was given a well-formed task and a null handle, and
\* its error envelope is in the caller's hands
C30_Witness ==
    /\ op = "call_translate_stream"
    /\ args.json_str = Ptr(MinimalTask)
    /\ is_null(args.translator_ptr)
    /\ envelope # None
    /\ ~is_null(envelope[1].at.err)

----------------------------------------------------------------------------
(* The relay task and the end of call_translate_stream, checked under      *)
(* SpecStream                                                              *)

\* C28: once call_translate_stream has returned, with success or with an
\* error, the relay task is not inside the callback and does not receive
\* another chunk to invoke the callback with.
C28_RelayEndsWithTheCall ==
    [][(call \in {"ok", "err"}) => (relay # "callback" /\ delivered' = delivered)]_vars

\* C25: every chunk the relay takes from its channel is converted to its
\* wire shape (into_ffi), only a Delta's wire chunk has a payload, and
\* converting the wire chunk back (from_ffi) gives the chunk that was taken.
C25_ChunkRoundTrip ==
    /\ relay # "panicked"
    /\ inflight # None =>
          /\ TranslateStreamChunk_from_ffi(Unwrap(inflight)) = Ok(delivered[Len(delivered)])
          /\ is_null(Unwrap(inflight).at.data) <=> Unwrap(inflight).at.tag # "Delta"

----------------------------------------------------------------------------
(* The task's interchange text: written by ProxyTranslator::translate      *)
(* (lib/src/ffi_proxy.rs), read by call_translate (macros/src/lib.rs)      *)

Options(values) == { None } \cup { Some(v) : v \in values }

\* tasks a caller may build: TranslateTask, lib/src/lib.rs
Tasks ==
    { [id |-> <<"i">>, content |-> <<"c">>,
       source_language |-> sl, target_language |-> tl,
       user_prompt |-> up, system_prompt |-> sp, field |-> fd,
       terms |-> ts, references |-> rs, extra |-> ex] :
         sl \in Options({<<"e", "n">>}), tl \in Options({<<"z", "h">>}),
         up \in Options({<<"u">>}), sp \in Options({<<"s">>}), fd \in Options({<<"f">>}),
         ts \in { <<>>, <<T1>>, <<T1, T2>>, <<T2, T1>> }, rs \in { <<>>, <<T1>> },
         ex \in Options({JNull, JEmpty}) }

\* serde_json::to_string(&task).unwrap(), made a C string
serde_json_to_string ==
    /\ host = "idle" /\ op = "none"
    /\ op' = "to_string"
    /\ host' = "calling"
    /\ args' = [task |-> args.task, json_str |-> Ptr(to_string_TranslateTask(args.task))]
    /\ UNCHANGED <<backendVars, sinkVars, consumerVars, s2nVars, bridgeVars,
                   wrapped, envelope, unwrapped, ret, backtrace, answer,
                   invoked, callbacks, runtimes, proxyVars>>

\* let task: TranslateTask = serde_json::from_str(input)
serde_json_from_str ==
    /\ host = "calling" /\ op = "to_string"
    /\ op' = "from_str"
    /\ host' = "done"
    /\ wrapped' = Some(task_arg(args.json_str))
    /\ UNCHANGED <<backendVars, sinkVars, consumerVars, s2nVars, bridgeVars,
                   envelope, unwrapped, ret, backtrace, answer, callVars, proxyVars>>

InitTask ==
    /\ BackendIdle
    /\ SinkInit(0)
    /\ ConsumerIdle
    /\ S2NIdle
    /\ BridgeIdle
    /\ host = "idle" /\ op = "none" /\ backtrace = FALSE
    /\ wrapped = None /\ envelope = None /\ unwrapped = None /\ ret = None
    /\ answer = None
    /\ args \in { [task |-> t] : t \in Tasks }
    /\ invoked = None /\ callbacks = 0 /\ runtimes = [built |-> 0, dropped |-> 0]
    /\ ProxyIdle

NextTask ==
    \/ serde_json_to_string
    \/ serde_json_from_str

SpecTask == InitTask /\ [][NextTask]_vars

\* C27: the task read from the text written for a task equals that task in
\* every field.
C27_TaskRoundTrip ==
    op = "from_str" => wrapped[1] = Ok(args.task)

----------------------------------------------------------------------------
(* The release functions a library exports: free_translate_result and      *)
(* free_supported_languages (macros/src/lib.rs), which call lib/src/ffi.rs *)

\* texts a wire result or a language array may point to
FreeTexts == { NULL, Ptr(<<"e", "n">>), Ptr(<<"z", "h">>) }

RECURSIVE Arrays(_)
\* the element sequences of n items
Arrays(n) ==
    IF n = 0 THEN { <<>> }
    ELSE { Append(a, t) : a \in Arrays(n - 1), t \in FreeTexts }

\* what a caller may pass: a result or null; an array with its length or
\* with zero, or null with any length
FreeArgs ==
    { [result |-> NULL] }
    \cup { [result |-> Ptr([reasoning |-> r, content |-> c])] : r, c \in FreeTexts }
    \cup { [array |-> NULL, len |-> n] : n \in 0..MaxLangs }
    \cup UNION { { [array |-> Ptr(a), len |-> n] : n \in {0, Len(a)} } :
                    a \in UNION { Arrays(n) : n \in 0..MaxLangs } }

IsResultArg(a) == "result" \in DOMAIN a

\* the buffers behind the arguments: a boxed struct and a C string per text
\* (TranslateResult::into_ffi), or a boxed slice, unless it is empty, and a
\* C string per element (convert_string_vec_to_c_array)
Allocated(a) ==
    IF IsResultArg(a)
        THEN IF is_null(a.result) THEN <<>>
             ELSE <<"payload">>
                  \o (IF is_null(a.result.at.reasoning) THEN <<>> ELSE <<"str">>)
                  \o (IF is_null(a.result.at.content) THEN <<>> ELSE <<"str">>)
        ELSE IF is_null(a.array) \/ a.array.at = <<>> THEN <<>>
             ELSE <<"array">>
                  \o SelectSeq([i \in 1..Len(a.array.at) |->
                                   IF is_null(a.array.at[i]) THEN "none" ELSE "str"],
                               LAMBDA k : k = "str")

\* live, after the buffers listed in frees are released
release(frees) == [k \in BufferKinds |-> live[k] - Count(frees, k)]

\* pub extern "C" fn free_translate_result(result)
extern_free_translate_result ==
    /\ host = "idle" /\ IsResultArg(args)
    /\ op' = "free_translate_result"
    /\ host' = "done"
    /\ live' = release(free_translate_result(args.result))
    /\ UNCHANGED <<backendVars, sinkVars, consumerVars, s2nVars, bridgeVars,
                   wrapped, envelope, unwrapped, ret, backtrace, answer, callVars,
                   owner, lib, handle, instance, released, exports,
                   calledWith, releasedWith, loadVars>>

\* pub extern "C" fn free_supported_languages(array, len)
extern_free_supported_languages ==
    /\ host = "idle" /\ ~IsResultArg(args)
    /\ op' = "free_supported_languages"
    /\ host' = "done"
    /\ live' = release(free_supported_languages(args.array, args.len))
    /\ UNCHANGED <<backendVars, sinkVars, consumerVars, s2nVars, bridgeVars,
                   wrapped, envelope, unwrapped, ret, backtrace, answer, callVars,
                   owner, lib, handle, instance, released, exports,
                   calledWith, releasedWith, loadVars>>

InitFree ==
    /\ BackendIdle
    /\ SinkInit(0)
    /\ ConsumerIdle
    /\ S2NIdle
    /\ BridgeIdle
    /\ host = "idle" /\ op = "none" /\ backtrace = FALSE
    /\ wrapped = None /\ envelope = None /\ unwrapped = None /\ ret = None
    /\ answer = None
    /\ args \in FreeArgs
    /\ invoked = None /\ callbacks = 0 /\ runtimes = [built |-> 0, dropped |-> 0]
    /\ owner = "none" /\ lib = "none" /\ handle = NULL
    /\ instance = "none" /\ released = 0 /\ exports = Symbols
    /\ live = outstanding(Allocated(args), <<>>)
    /\ calledWith = {} /\ releasedWith = {}
    /\ LoadIdle

NextFree ==
    \/ extern_free_translate_result
    \/ extern_free_supported_languages

SpecFree == InitFree /\ [][NextFree]_vars

\* C26: free_translate_result leaves the reasoning text, the content text
\* and the struct of a non-null result released, each once, and releases
\* nothing for null; free_supported_languages leaves every element and the
\* array storage released, each once, and releases nothing for a null array
\* or a zero length.
C26_FreeReleasesOnce ==
    host = "done" =>
        /\ op = "free_translate_result" => live = NoBuffers
        /\ op = "free_supported_languages" =>
              live = IF is_null(args.array) \/ args.len = 0
                        THEN outstanding(Allocated(args), <<>>)
                        ELSE NoBuffers

\* free_translate_result was given a result with both texts
C26_Witness ==
    /\ host = "done" /\ op = "free_translate_result"
    /\ ~is_null(args.result)
    /\ ~is_null(args.result.at.reasoning) /\ ~is_null(args.result.at.content)
    /\ live = NoBuffers

\* free_supported_languages was given an array of several languages
C26_WitnessArray ==
    /\ host = "done" /\ op = "free_supported_languages"
    /\ ~is_null(args.array) /\ args.len > 1
    /\ \A i \in 1..args.len : ~is_null(args.array.at[i])
    /\ live = NoBuffers

----------------------------------------------------------------------------
(* The backend behind the handle, checked under SpecProxy *)

\* C31: while the ProxyTranslator lives, no step of it (a boundary operation,
\* succeeded or failed) releases, replaces or remakes the backend that
\* create_translator made: the handle and the instance stay as they were.
C31_CallsKeepTheInstance ==
    [][(owner = "live" /\ owner' = "live") =>
          (handle' = handle /\ instance' = instance /\ released' = released)]_vars

\* several boundary calls were made with the handle, the last of them
\* failed, and the instance is still live behind the handle
C31_Witness ==
    /\ owner = "live" /\ instance = "live" /\ ~is_null(handle) /\ released = 0
    /\ op \in {"call_translate", "call_translate_stream"}
    /\ calledWith # {}
    /\ ret # None /\ ~ret[1].ok

----------------------------------------------------------------------------
(* The caller's channel after ProxyTranslator::translate_stream, checked   *)
(* under SpecStream                                                        *)

\* C32: once ProxyTranslator::translate_stream has returned and the
\* consumer, looping on recv, has seen the end of the stream, it has
\* received every chunk that was forwarded: nothing is forwarded to the
\* caller's channel any more.
C32_ConsumerSeesAllThenEnd ==
    (proxy \in {"ok", "err"} /\ consumer = "done") =>
        /\ out = <<>>
        /\ relay # "callback"

----------------------------------------------------------------------------
(* normal2stream when it cannot complete, checked under SpecDirect *)

\* the backend's one-shot translate was called and failed
TranslateFailed ==
    kind = "normal2stream" /\ pc = "err" /\ invoked # None /\ data = None

\* normal2stream went past its first send without emitting
NothingEmitted ==
    kind = "normal2stream" /\ pc # "start" /\ emitted = <<>>

\* C33: when the one-shot translate fails, normal2stream has emitted Start
\* and nothing else, and returns an error; when its first send fails on a
\* closed sink it has emitted nothing, returns an error, and translate was
\* not called.
C33_Normal2StreamFailure ==
    /\ TranslateFailed => emitted = <<Start>>
    /\ NothingEmitted => (pc = "err" /\ invoked = None)

\* translate failed after Start had been sent
C33_Witness ==
    TranslateFailed /\ emitted = <<Start>>

\* the sink was closed before the first send
C33_WitnessClosed ==
    NothingEmitted /\ pc = "err" /\ ~rxAlive /\ invoked = None

----------------------------------------------------------------------------
(* YoudaoLLMTranslator::translate_stream over the events of its            *)
(* EventSource, checked under SpecDirect                                   *)

\* C34, as stated: a call of YoudaoLLMTranslator::translate_stream that has
\* returned has emitted exactly one Start, before anything else, and when it
\* returned success its last chunk is the only End.
C34_ExactlyOneStart ==
    (kind = "youdao" /\ Returned) =>
        /\ Count(emitted, Start) = 1
        /\ emitted[1] = Start
        /\ pc = "ok" => (emitted[Len(emitted)] = End /\ Count(emitted, End) = 1)

\* C34, amended: YoudaoLLMTranslator::translate_stream emits at most one
\* Start, and whatever it emits begins with it; when it returns success it
\* has emitted exactly Start, Delta*, End.  A call that fails before its
\* EventSource opens has emitted nothing.
C34_StartFirstEndLast ==
    kind = "youdao" =>
        /\ Count(emitted, Start) <= 1
        /\ emitted # <<>> => emitted[1] = Start
        /\ pc = "ok" => StartDeltasEnd(emitted)
        /\ (pc = "err" /\ es \in {"none", "connecting"}) => emitted = <<>>

\* the stream opened, gave messages, ended, and the call returned success
C34_Witness ==
    /\ kind = "youdao" /\ pc = "ok"
    /\ Len(emitted) >= 3
    /\ es = "closed"

----------------------------------------------------------------------------
(* HunyuanTranslator::build_request: plugin-hunyuan/src/translator.rs *)

min(a, b) == IF a < b THEN a ELSE b

RECURSIVE Decimal(_)
\* a number as text
Decimal(n) ==
    LET digits == <<"0", "1", "2", "3", "4", "5", "6", "7", "8", "9">>
    IN  IF n < 10 THEN <<digits[n + 1]>>
        ELSE Decimal(n \div 10) \o <<digits[(n % 10) + 1]>>

\* the i-th item of a list: every item differs from every other
Item(list, i) == TranslatedItem(<<list>> \o Decimal(i), <<"=">> \o Decimal(i))
Items(list, n) == <<>> \o [i \in 1..n |-> Item(list, i)]

\* lang.to_string().to_lowercase(): the variant's name, in lower case
Hunyuan_language(tag) ==
    LET lang == HunyuanTransLanguages_try_from(tag)
    IN  IF ~lang.ok THEN lang
        ELSE Ok(CASE lang.v = <<"z", "h">> -> "zh"
                  [] lang.v = <<"e", "n">> -> "en")

\* json!({"Type": .., "Text": i.source, "Translation": i.target})
Reference(type, i) == [Type |-> type, Text |-> i.source, Translation |-> i.target]

\* a slip: the references are cut at the limit without counting the terms
build_request_references_uncounted(task, stream) ==
    LET target ==
            IF ~IsSome(task.target_language) THEN Err(<<"target_language">>)
            ELSE Hunyuan_language(Unwrap(task.target_language))
        source ==
            IF ~IsSome(task.source_language) THEN Err(<<>>)
            ELSE Hunyuan_language(Unwrap(task.source_language))
        terms ==
            IF Len(task.terms) > 0
                THEN <<>> \o [i \in 1..min(Len(task.terms), References_max) |->
                                Reference("term", task.terms[i])]
                ELSE <<>>
        sentences ==
            IF Len(task.references) > 0 /\ Len(terms) < References_max
                THEN <<>> \o [i \in 1..min(Len(task.references), References_max) |->
                                Reference("sentence", task.references[i])]
                ELSE <<>>
    IN  IF ~target.ok THEN target
        ELSE Ok([Model |-> "hunyuan-translation", Stream |-> stream,
                 Text |-> task.content, Target |-> target.v,
                 Source |-> IF source.ok THEN Some(source.v) ELSE None,
                 Field |-> task.field,
                 References |-> terms \o sentences])

\* HunyuanTranslator::build_request(&self, task, stream); a key the body
\* lacks is None here
build_request(task, stream) ==
    LET target ==
            IF ~IsSome(task.target_language) THEN Err(<<"target_language">>)
            ELSE Hunyuan_language(Unwrap(task.target_language))
        source ==
            IF ~IsSome(task.source_language) THEN Err(<<>>)
            ELSE Hunyuan_language(Unwrap(task.source_language))
        terms ==
            IF Len(task.terms) > 0
                THEN <<>> \o [i \in 1..min(Len(task.terms), References_max) |->
                                Reference("term", task.terms[i])]
                ELSE <<>>
        sentences ==
            IF Len(task.references) > 0 /\ Len(terms) < References_max
                THEN <<>> \o [i \in 1..min(Len(task.references),
                                           References_max - Len(terms)) |->
                                Reference("sentence", task.references[i])]
                ELSE <<>>
    IN  IF ~target.ok THEN target
        ELSE Ok([Model |-> "hunyuan-translation", Stream |-> stream,
                 Text |-> task.content, Target |-> target.v,
                 Source |-> IF source.ok THEN Some(source.v) ELSE None,
                 Field |-> task.field,
                 References |-> terms \o sentences])

\* tasks given to the Hunyuan backend
HunyuanTasks ==
    { [id |-> <<"i">>, content |-> <<"c">>,
       source_language |-> sl, target_language |-> tl,
       user_prompt |-> None, system_prompt |-> None, field |-> None,
       terms |-> Items("t", n), references |-> Items("r", m), extra |-> None] :
         sl \in Options({<<"e", "n">>}), tl \in Options({<<"z", "h">>, <<"x", "x">>}),
         n \in 0..MaxItems, m \in 0..MaxItems }

\* self.build_request(&task, stream); translate passes false
Hunyuan_build_request ==
    /\ host = "idle" /\ op = "none"
    /\ \E stream \in BOOLEAN :
        /\ args' = [task |-> args.task, stream |-> stream]
        /\ wrapped' = Some(build_request(args.task, stream))
    /\ op' = "build_request"
    /\ host' = "done"
    /\ UNCHANGED <<backendVars, sinkVars, consumerVars, s2nVars, bridgeVars,
                   envelope, unwrapped, ret, backtrace, answer,
                   invoked, callbacks, runtimes, proxyVars>>

InitHunyuan ==
    /\ BackendIdle
    /\ SinkInit(0)
    /\ ConsumerIdle
    /\ S2NIdle
    /\ BridgeIdle
    /\ host = "idle" /\ op = "none" /\ backtrace = FALSE
    /\ wrapped = None /\ envelope = None /\ unwrapped = None /\ ret = None
    /\ answer = None
    /\ args \in { [task |-> t] : t \in HunyuanTasks }
    /\ invoked = None /\ callbacks = 0 /\ runtimes = [built |-> 0, dropped |-> 0]
    /\ ProxyIdle

NextHunyuan ==
    \/ Hunyuan_build_request

SpecHunyuan == InitHunyuan /\ [][NextHunyuan]_vars

\* C35: the request HunyuanTranslator::build_request makes has a References
\* list of at most 10 entries: the first min(|terms|, 10) terms in their
\* order, each typed "term", then the first min(|references|, 10 less that
\* count) references in their order, each typed "sentence".
C35_ReferencesArePrefixes ==
    (op = "build_request" /\ wrapped[1].ok) =>
        LET made == wrapped[1].v.References
            terms == args.task.terms
            references == args.task.references
            t == min(Len(terms), 10)
            r == min(Len(references), 10 - t)
        IN  /\ Len(made) = t + r
            /\ Len(made) <= 10
            /\ \A i \in 1..t :
                  made[i] = [Type |-> "term", Text |-> terms[i].source,
                             Translation |-> terms[i].target]
            /\ \A j \in 1..r :
                  made[t + j] = [Type |-> "sentence", Text |-> references[j].source,
                                 Translation |-> references[j].target]

\* a task with seven terms and five references: three references are kept
C35_Witness ==
    /\ op = "build_request" /\ wrapped[1].ok
    /\ Len(args.task.terms) = 7 /\ Len(args.task.references) = 5
    /\ Len(wrapped[1].v.References) = 10
    /\ wrapped[1].v.References[10].Type = "sentence"

----------------------------------------------------------------------------
(* QwenMtTranslator::translate_stream over cumulative contents, checked    *)
(* under SpecDirect                                                        *)

\* every response chunk so far had a content that extends the one before it:
\* no Delta went out without content
Cumulative ==
    \A i \in 1..Len(emitted) :
        emitted[i].tag = "Delta" => emitted[i].res.content # None

\* the step emits a Delta for a response chunk that has a content, which
\* becomes the remembered one
QwenDelta ==
    /\ kind = "qwen" /\ pc = "next"
    /\ Len(emitted') = Len(emitted) + 1
    /\ cache' # <<>>

\* C36: while the contents of a Qwen response stream are cumulative, the
\* contents of the Deltas emitted concatenate to the last such content; and
\* a chunk whose content does not start with the remembered one gives a
\* Delta without content, and its content is remembered from then on.
C36_QwenDeltasAreIncrements ==
    /\ []((kind = "qwen" /\ Cumulative) => DeltaContents(emitted) = cache)
    /\ [][QwenDelta =>
            LET sent == emitted'[Len(emitted')].res.content
            IN  IF Len(cache) <= Len(cache') /\ SubSeq(cache', 1, Len(cache)) = cache
                   THEN sent # None /\ cache \o sent[1] = cache'
                   ELSE sent = None]_vars

\* two cumulative contents, "a" then "ab", gave the Deltas "a" and "b"
C36_Witness ==
    /\ kind = "qwen" /\ Cumulative
    /\ cache = <<"a", "b">>
    /\ Len(emitted) >= 3
    /\ emitted[2] = Delta(TranslateResult(None, Some(<<"a">>)))
    /\ emitted[3] = Delta(TranslateResult(None, Some(<<"b">>)))

\* the content "b" after "a": a Delta without content, and "b" remembered
C36_WitnessReplaced ==
    /\ kind = "qwen"
    /\ cache = <<"b">>
    /\ Len(emitted) >= 3
    /\ emitted[2] = Delta(TranslateResult(None, Some(<<"a">>)))
    /\ emitted[3] = Delta(TranslateResult(None, None))

----------------------------------------------------------------------------
(* The files load_translators takes for libraries, checked under SpecLoad *)

\* the platform's native dynamic-library suffix
NativeSuffix ==
    CASE platform = "windows" -> "dll"
      [] platform = "linux" -> "so"
      [] platform = "macos" -> "dylib"

\* the platform's filesystem does not tell "a.DLL" from "a.dll": NTFS on
\* Windows, and APFS or HFS+ as macOS sets them up
CaseInsensitiveFilesystem == platform \in {"windows", "macos"}

\* the entry is a regular file whose extension is the native suffix
HasNativeSuffix(e) ==
    /\ e.ok /\ e.is_file /\ IsSome(e.ext)
    /\ IF CaseInsensitiveFilesystem
          THEN to_lowercase(Unwrap(e.ext)) = NativeSuffix
          ELSE Unwrap(e.ext) = NativeSuffix

\* C37: of the entries walked, load_translators takes for candidates exactly
\* the regular files whose extension is the platform's native suffix,
\* without regard to case where the filesystem has none.
C37_CandidatesByNativeSuffix ==
    load = "walk" =>
        \A i \in 1..walked :
            (\E j \in 1..Len(libraries) : libraries[j] = i) <=> HasNativeSuffix(tree[i])

----------------------------------------------------------------------------
(* A constructor that fails, and load, checked under SpecProxy *)

\* ProxyTranslator::new returned an error
NewFailed == op = "new" /\ ret # None /\ ~ret[1].ok

\* nothing of the failed construction is left behind
NothingLeftBehind ==
    /\ owner = "none"
    /\ handle = NULL
    /\ instance # "live"
    /\ lib # "mapped"

\* the last construction came through ProxyTranslator::load
Loaded == args # <<>> /\ args.load # None

\* C38: a ProxyTranslator::new that fails leaves no ProxyTranslator, no live
\* backend and no mapped library; and every ProxyTranslator::load(path, config)
\* hands path to Library::new, whatever the config holds under _dll_path.
C38_FailedNewLeavesNothing_LoadOpensPath ==
    /\ NewFailed => NothingLeftBehind
    /\ Loaded => args.Library_new = Some(args.load[1].path)

====
